---- MODULE Spec2Model ----
(***************************************************************************)
(* Model of the CIterators library: the Iterator contract with its array,  *)
(* range, filter, map and zip variants (src/src/CIterators.c), the generic *)
(* utilities iterator_advance / iterator_reset, and the introsort engine   *)
(* generic_sort (src/src/CSortting.c).                                     *)
(*                                                                         *)
(* An Iterator is a record [category, current, impl]; the function slots   *)
(* next/equal/deref/destroy are fixed by the constructor and are therefore *)
(* dispatched on the category tag.  Pointers are tagged records; caller    *)
(* buffers live in a memory m that maps a buffer base to its ints.         *)
(***************************************************************************)
EXTENDS Integers, Sequences, FiniteSets, TLC

\* ------------------------------------------------------------------ bounds
MaxLen == 2          \* longest caller buffer wrapped by an array iterator
MaxSrcLen == 2       \* longest buffer under a filter or map iterator
MaxVal == 2          \* buffer cells hold 1..MaxVal
MaxZip == 2          \* most sources combined by one zip iterator
MaxZipLen == 3       \* longest buffer of a zip source
MaxAdv == 6          \* consecutive advance calls the caller makes
MaxAdvBy == 3        \* largest n passed to iterator_advance
MaxRange == 3        \* range bounds are drawn from -MaxRange..MaxRange
MaxStep == 2         \* range steps are drawn from -MaxStep..MaxStep
MaxSortN == 25       \* longest table handed to generic_sort in SpecSort
MaxSeed == 3         \* number of scrambled inputs per length in SpecSort
MaxFailAt == 2       \* the failing realloc of iterator_to_array is call 1..MaxFailAt
MaxPartN == 5        \* longest table handed to partition and heap_sort on their own

\* --------------------------------------------------------------- constants
INT_MAX == 2147483647
INT_MIN == -INT_MAX - 1
NPOS == -1           \* (size_t)-1, the before-first index
SORT_THRESHOLD == 16 \* subranges shorter than this are insertion-sorted

\* ---------------------------------------------------------------- pointers
NULL == [tag |-> "null"]
ElemPtr(base, off) == [tag |-> "elem", base |-> base, off |-> off]
RangeCurPtr(id) == [tag |-> "rangecur", id |-> id]
HeapInt(v) == [tag |-> "heap", val |-> v]
TuplePtr(elems) == [tag |-> "tuple", elems |-> elems]
\* what a read outside an allocated block may yield: a null pointer, an
\* address that cannot be read, or the address of an int the heap still holds
\* (tag "stale", with the int as val)
WildPointers ==
    {NULL, [tag |-> "wild"]} \cup {[tag |-> "stale", val |-> v] : v \in {0, 1}}

\* int arithmetic, wrapping at 32 bits
IntAdd(a, b) ==
    IF b > 0 /\ a > INT_MAX - b THEN (a - INT_MAX - 1) + (b - INT_MAX - 1)
    ELSE IF b < 0 /\ a < INT_MIN - b THEN (a + INT_MAX + 1) + (b + INT_MAX + 1)
    ELSE a + b

IntSub(a, b) ==
    IF b < 0 /\ a > INT_MAX + b THEN (a - INT_MAX - 1) - (b + INT_MAX + 1)
    ELSE IF b > 0 /\ a < INT_MIN + b THEN (a + INT_MAX + 1) - (b - INT_MAX - 1)
    ELSE a - b

RECURSIVE IntMul(_, _)
\* a * b as the builds compute it: the low 32 bits of the product
IntMul(a, b) ==
    IF b = 0 THEN 0
    ELSE IF b = INT_MIN THEN (IF a % 2 = 0 THEN 0 ELSE INT_MIN)
    ELSE IF b < 0 THEN IntSub(0, IntMul(a, -b))
    ELSE LET h == IntMul(a, b \div 2)
             d == IntAdd(h, h)
         IN  IF b % 2 = 1 THEN IntAdd(d, a) ELSE d

\* table[i] for a table of `size` slots; g is what an out-of-bounds read yields
ElemAt(elements, size, i, g) ==
    IF 0 <= i /\ i < size THEN elements[i] ELSE g

\* g maps the heap block of every empty pointer table to what the word just
\* past it holds
GarbageAt(g, table) == IF table \in DOMAIN g THEN g[table] ELSE NULL

\* ------------------------------------------------------------- constructors
\* (Iterator){0}: every function slot, impl and current are null and the
\* category is the first enumerator
ZeroIterator == [category |-> "INPUT_ITERATOR", current |-> NULL, impl |-> NULL]

\* Every constructor takes fail, the number of its malloc call that returns
\* NULL, counted in the order of the source text; 0 when none does.

\* table names the heap block of the pointer table
\* fail = 1: the pointer table, fail = 2: the GenericArrayIterator
create_generic_array_iterator(table, array, size, element_size, fail) ==
    IF fail = 1 THEN ZeroIterator
    ELSE IF fail = 2 THEN ZeroIterator
    ELSE [category |-> "FORWARD_ITERATOR",
          current  |-> NULL,
          impl     |-> [table        |-> table,
                        elements     |-> [i \in 0..(size - 1) |->
                                             ElemPtr(array, i * element_size)],
                        index        |-> NPOS,
                        size         |-> size,
                        element_size |-> element_size]]

\* id names the heap block of the RangeIterator state; fail = 1: that block
create_range_iterator(id, start, end, step, fail) ==
    IF step = 0 THEN ZeroIterator
    ELSE IF fail = 1 THEN ZeroIterator
    ELSE [category |-> "INPUT_ITERATOR",
          current  |-> NULL,
          impl     |-> [id      |-> id,
                        start   |-> start,
                        current |-> IntSub(start, step),
                        end     |-> end,
                        step    |-> step]]

\* fail = 1: the FilterIterator
filter_iterator(it, filter_fn, fail) ==
    IF fail = 1 THEN ZeroIterator
    ELSE [category |-> "FILTER_ITERATOR",
          current  |-> NULL,
          impl     |-> [source |-> it, filter_fn |-> filter_fn]]

\* fail = 1: the MapIterator
map_iterator(it, map_fn, fail) ==
    IF fail = 1 THEN ZeroIterator
    ELSE [category |-> "MAP_ITERATOR",
          current  |-> NULL,
          impl     |-> [source |-> it, map_fn |-> map_fn]]

\* iterators is a function 0..count-1 -> Iterator; fail = 1: the
\* MultiZipIterator, 2: owned_iterators, 3: valid, 4: elements
multi_zip_iterators(iterators, count, fail) ==
    IF fail = 1 THEN ZeroIterator
    ELSE IF fail \in {2, 3, 4} THEN ZeroIterator
    ELSE [category |-> "ZIP_ITERATOR",
          current  |-> NULL,
          impl     |-> [iterators |-> [i \in 0..(count - 1) |-> iterators[i]],
                        count     |-> count,
                        valid     |-> [i \in 0..(count - 1) |-> TRUE],
                        elements  |-> [i \in 0..(count - 1) |-> NULL],
                        first     |-> TRUE]]

\* ------------------------------------------------------------ reading memory
RECURSIVE RangeCells(_, _)
\* the current fields of the RangeIterator blocks named id inside `it`
RangeCells(it, id) ==
    CASE it.category = "INPUT_ITERATOR" ->
            IF it.impl.id = id THEN {it.impl.current} ELSE {}
      [] it.category \in {"FILTER_ITERATOR", "MAP_ITERATOR"} ->
            RangeCells(it.impl.source, id)
      [] it.category = "ZIP_ITERATOR" ->
            UNION {RangeCells(it.impl.iterators[i], id) : i \in 0..(it.impl.count - 1)}
      [] OTHER -> {}

\* no value: the read through a pointer that is no element kills the process
Fault == [tag |-> "fault"]

RECURSIVE Readable(_)
\* reading the element behind p, slot by slot for a tuple, yields a value
Readable(p) ==
    CASE p.tag \in {"elem", "rangecur", "heap", "stale"} -> TRUE
      [] p.tag = "tuple" -> \A i \in DOMAIN p.elems : Readable(p.elems[i])
      [] OTHER -> FALSE

RECURSIVE Load(_, _, _)
\* the value read through pointer p while the iterator tree `root` is live
Load(root, m, p) ==
    CASE p.tag = "elem"     -> m[p.base].data[(p.off \div m[p.base].esize) + 1]
      [] p.tag = "rangecur" -> CHOOSE v \in RangeCells(root, p.id) : TRUE
      [] p.tag = "heap"     -> p.val
      [] p.tag = "stale"    -> p.val
      [] p.tag = "tuple"    -> [i \in DOMAIN p.elems |-> Load(root, m, p.elems[i])]
      [] OTHER              -> Fault

\* ------------------------------------------------------- caller's functions
is_even(num) == num % 2 = 0

square(num) == HeapInt(IntMul(num, num))

\* the element behind p can be read as an int
PointsToInt(p) == p.tag \in {"elem", "rangecur", "heap", "stale"}

\* pred(element): r is what the callback returns, trap says that it was
\* killed by a signal instead.  is_even reads *(int *)element, which kills
\* the process when element is no element
CallPred(pred, it, m, element) ==
    CASE pred = "is_even" ->
            IF PointsToInt(element)
            THEN [trap |-> FALSE, r |-> is_even(Load(it, m, element))]
            ELSE [trap |-> TRUE, r |-> FALSE]
      [] pred = "always"  -> [trap |-> FALSE, r |-> TRUE]
      [] pred = "never"   -> [trap |-> FALSE, r |-> FALSE]

\* map_fn(element), with the outcomes of CallPred: square reads *(int *)element
ApplyMap(fn, it, m, element) ==
    CASE fn = "square" ->
            IF PointsToInt(element)
            THEN [trap |-> FALSE, r |-> square(Load(it, m, element))]
            ELSE [trap |-> TRUE, r |-> NULL]
      [] fn = "self"   -> [trap |-> FALSE, r |-> element]

\* ------------------------------------------------------------- dereference
\* a dereference that reads the table slot under the cursor instead
generic_array_deref_slot(it) ==
    ElemAt(it.impl.elements, it.impl.size, it.impl.index, NULL)

generic_array_deref(it) == it.current
range_deref(it) == it.current
multi_zip_deref(it) == it.current
filter_deref(it) == it.current
map_deref(it) == it.current

\* it->deref(it)
DerefOp(it) ==
    CASE it.category = "FORWARD_ITERATOR" -> generic_array_deref(it)
      [] it.category = "INPUT_ITERATOR"   -> range_deref(it)
      [] it.category = "ZIP_ITERATOR"     -> multi_zip_deref(it)
      [] it.category = "FILTER_ITERATOR"  -> filter_deref(it)
      [] it.category = "MAP_ITERATOR"     -> map_deref(it)

\* ------------------------------------------------------------------ advance
\* every next function yields [it   |-> the iterator afterwards,
\*                             r    |-> TRUE iff it returned non-NULL,
\*                             trap |-> TRUE iff a callback it made was killed
\*                                      by a signal, so that it never returned]
\* generic_array_next that starts over from slot 0 once past the last slot
generic_array_next_wrap(it, g) ==
    LET iter == it.impl IN
    IF iter.index = NPOS \/ iter.index + 1 >= iter.size
    THEN [it |-> [it EXCEPT !.impl.index = 0,
                            !.current = ElemAt(iter.elements, iter.size, 0,
                                               GarbageAt(g, iter.table))],
          r  |-> iter.index = NPOS, trap |-> FALSE]
    ELSE [it |-> [it EXCEPT !.impl.index = iter.index + 1,
                            !.current = iter.elements[iter.index + 1]],
          r  |-> TRUE, trap |-> FALSE]

generic_array_next(it, g) ==
    LET iter == it.impl IN
    IF iter.index = NPOS
    THEN [it |-> [it EXCEPT !.impl.index = 0,
                            !.current = ElemAt(iter.elements, iter.size, 0,
                                               GarbageAt(g, iter.table))],
          r  |-> TRUE, trap |-> FALSE]
    ELSE IF iter.index + 1 < iter.size
    THEN [it |-> [it EXCEPT !.impl.index = iter.index + 1,
                            !.current = iter.elements[iter.index + 1]],
          r  |-> TRUE, trap |-> FALSE]
    ELSE [it |-> [it EXCEPT !.current = NULL], r |-> FALSE, trap |-> FALSE]

\* range_next whose bound test lets the end value through
range_next_inclusive(it) ==
    LET iter == it.impl
        next_val == IntAdd(iter.current, iter.step)
    IN  IF (iter.step > 0 /\ next_val > iter.end) \/
           (iter.step < 0 /\ next_val < iter.end)
        THEN [it |-> it, r |-> FALSE, trap |-> FALSE]
        ELSE [it |-> [it EXCEPT !.impl.current = next_val,
                                !.current = RangeCurPtr(iter.id)],
              r  |-> TRUE, trap |-> FALSE]

\* range_next that hands out a fresh copy of every value it produces
range_next_boxed(it) ==
    LET iter == it.impl
        next_val == IntAdd(iter.current, iter.step)
    IN  IF (iter.step > 0 /\ next_val >= iter.end) \/
           (iter.step < 0 /\ next_val <= iter.end)
        THEN [it |-> it, r |-> FALSE, trap |-> FALSE]
        ELSE [it |-> [it EXCEPT !.impl.current = next_val,
                                !.current = HeapInt(next_val)],
              r  |-> TRUE, trap |-> FALSE]

range_next(it) ==
    LET iter == it.impl
        next_val == IntAdd(iter.current, iter.step)
    IN  IF (iter.step > 0 /\ next_val >= iter.end) \/
           (iter.step < 0 /\ next_val <= iter.end)
        THEN [it |-> it, r |-> FALSE, trap |-> FALSE]
        ELSE [it |-> [it EXCEPT !.impl.current = next_val,
                                !.current = RangeCurPtr(iter.id)],
              r  |-> TRUE, trap |-> FALSE]

RECURSIVE NextOp(_, _, _)
RECURSIVE filter_next(_, _, _)
RECURSIVE ZipLoop(_, _, _, _, _)

\* filter_next that gives up at the first rejected element
filter_next_stop(it, m, g) ==
    LET s   == NextOp(it.impl.source, m, g)
        it1 == [it EXCEPT !.impl.source = s.it]
    IN  IF s.trap THEN [it |-> it1, r |-> FALSE, trap |-> TRUE]
        ELSE IF s.r
        THEN LET element == DerefOp(s.it)
                 c       == CallPred(it.impl.filter_fn, s.it, m, element)
             IN  IF c.trap THEN [it |-> it1, r |-> FALSE, trap |-> TRUE]
                 ELSE IF c.r
                 THEN [it |-> [it1 EXCEPT !.current = element],
                       r  |-> TRUE, trap |-> FALSE]
                 ELSE [it |-> [it1 EXCEPT !.current = NULL],
                       r  |-> FALSE, trap |-> FALSE]
        ELSE [it |-> [it1 EXCEPT !.current = NULL], r |-> FALSE, trap |-> FALSE]

\* filter_fn is called on whatever the source handed out
filter_next(it, m, g) ==
    LET s   == NextOp(it.impl.source, m, g)
        it1 == [it EXCEPT !.impl.source = s.it]
    IN  IF s.trap THEN [it |-> it1, r |-> FALSE, trap |-> TRUE]
        ELSE IF s.r
        THEN LET element == DerefOp(s.it)
                 c       == CallPred(it.impl.filter_fn, s.it, m, element)
             IN  IF c.trap THEN [it |-> it1, r |-> FALSE, trap |-> TRUE]
                 ELSE IF c.r
                 THEN [it |-> [it1 EXCEPT !.current = element],
                       r  |-> TRUE, trap |-> FALSE]
                 ELSE filter_next(it1, m, g)
        ELSE [it |-> [it1 EXCEPT !.current = NULL], r |-> FALSE, trap |-> FALSE]

\* map_next that caches the source element untransformed
map_next_raw(it, m, g) ==
    LET s   == NextOp(it.impl.source, m, g)
        it1 == [it EXCEPT !.impl.source = s.it]
    IN  IF s.trap THEN [it |-> it1, r |-> FALSE, trap |-> TRUE]
        ELSE IF s.r
        THEN [it |-> [it1 EXCEPT !.current = DerefOp(s.it)],
              r  |-> TRUE, trap |-> FALSE]
        ELSE [it |-> [it1 EXCEPT !.current = NULL], r |-> FALSE, trap |-> FALSE]

\* map_fn is called on whatever the source handed out
map_next(it, m, g) ==
    LET s   == NextOp(it.impl.source, m, g)
        it1 == [it EXCEPT !.impl.source = s.it]
    IN  IF s.trap THEN [it |-> it1, r |-> FALSE, trap |-> TRUE]
        ELSE IF s.r
        THEN LET element == DerefOp(s.it)
                 c       == ApplyMap(it.impl.map_fn, s.it, m, element)
             IN  IF c.trap THEN [it |-> it1, r |-> FALSE, trap |-> TRUE]
                 ELSE [it |-> [it1 EXCEPT !.current = c.r],
                       r  |-> TRUE, trap |-> FALSE]
        ELSE [it |-> [it1 EXCEPT !.current = NULL], r |-> FALSE, trap |-> FALSE]

\* the loop of multi_zip_next storing every element in slot 0 of the block
ZipLoop_slot0(iter, elements, i, m, g) ==
    IF i < iter.count
    THEN LET s == NextOp(iter.iterators[i], m, g)
             iter1 == [iter EXCEPT !.iterators[i] = s.it]
         IN  IF s.trap
             THEN [iter |-> iter1, elements |-> elements, all_valid |-> FALSE,
                   trap |-> TRUE]
             ELSE IF s.r
             THEN ZipLoop(iter1, [elements EXCEPT ![0] = DerefOp(s.it)], i + 1, m, g)
             ELSE [iter |-> iter1, elements |-> elements, all_valid |-> FALSE,
                   trap |-> FALSE]
    ELSE [iter |-> iter, elements |-> elements, all_valid |-> TRUE, trap |-> FALSE]

\* the for loop of multi_zip_next from index i on; elements is the fresh block
ZipLoop(iter, elements, i, m, g) ==
    IF i < iter.count
    THEN LET s == NextOp(iter.iterators[i], m, g)
             iter1 == [iter EXCEPT !.iterators[i] = s.it]
         IN  IF s.trap
             THEN [iter |-> iter1, elements |-> elements, all_valid |-> FALSE,
                   trap |-> TRUE]
             ELSE IF s.r
             THEN ZipLoop(iter1, [elements EXCEPT ![i] = DerefOp(s.it)], i + 1, m, g)
             ELSE [iter |-> iter1, elements |-> elements, all_valid |-> FALSE,
                   trap |-> FALSE]
    ELSE [iter |-> iter, elements |-> elements, all_valid |-> TRUE, trap |-> FALSE]

\* Every slot of the block malloc hands to multi_zip_next is written before
\* the block is published, and the block is freed otherwise.
\* multi_zip_next that leaves the previous tuple in current on exhaustion
multi_zip_next_stale(it, m, g) ==
    LET l == ZipLoop(it.impl, [i \in 0..(it.impl.count - 1) |-> NULL], 0, m, g) IN
    IF l.trap THEN [it |-> [it EXCEPT !.impl = l.iter], r |-> FALSE, trap |-> TRUE]
    ELSE IF ~l.all_valid
    THEN [it |-> [it EXCEPT !.impl = l.iter], r |-> FALSE, trap |-> FALSE]
    ELSE [it |-> [it EXCEPT !.impl = l.iter, !.current = TuplePtr(l.elements)],
          r  |-> TRUE, trap |-> FALSE]

\* multi_zip_next that puts the sources back where they were on exhaustion
multi_zip_next_rollback(it, m, g) ==
    LET l == ZipLoop(it.impl, [i \in 0..(it.impl.count - 1) |-> NULL], 0, m, g) IN
    IF l.trap THEN [it |-> [it EXCEPT !.impl = l.iter], r |-> FALSE, trap |-> TRUE]
    ELSE IF ~l.all_valid
    THEN [it |-> [it EXCEPT !.current = NULL], r |-> FALSE, trap |-> FALSE]
    ELSE [it |-> [it EXCEPT !.impl = l.iter, !.current = TuplePtr(l.elements)],
          r  |-> TRUE, trap |-> FALSE]

multi_zip_next(it, m, g) ==
    LET l == ZipLoop(it.impl, [i \in 0..(it.impl.count - 1) |-> NULL], 0, m, g) IN
    IF l.trap THEN [it |-> [it EXCEPT !.impl = l.iter], r |-> FALSE, trap |-> TRUE]
    ELSE IF ~l.all_valid
    THEN [it |-> [it EXCEPT !.impl = l.iter, !.current = NULL],
          r  |-> FALSE, trap |-> FALSE]
    ELSE [it |-> [it EXCEPT !.impl = l.iter, !.current = TuplePtr(l.elements)],
          r  |-> TRUE, trap |-> FALSE]

\* it->next(it); g maps every empty pointer table inside `it` to what a read
\* of its slot 0 yields
NextOp(it, m, g) ==
    CASE it.category = "FORWARD_ITERATOR" -> generic_array_next(it, g)
      [] it.category = "INPUT_ITERATOR"   -> range_next(it)
      [] it.category = "ZIP_ITERATOR"     -> multi_zip_next(it, m, g)
      [] it.category = "FILTER_ITERATOR"  -> filter_next(it, m, g)
      [] it.category = "MAP_ITERATOR"     -> map_next(it, m, g)

\* ------------------------------------------------------- generic utilities
RECURSIVE AdvanceLoop(_, _, _, _, _)
\* the for loop of iterator_advance from step i on
AdvanceLoop(it, i, n, m, g) ==
    IF i < n
    THEN LET s == NextOp(it, m, g) IN
         IF s.trap THEN [it |-> s.it, r |-> FALSE, trap |-> TRUE]
         ELSE IF ~s.r THEN [it |-> s.it, r |-> FALSE, trap |-> FALSE]
         ELSE AdvanceLoop(s.it, i + 1, n, m, g)
    ELSE [it |-> it, r |-> TRUE, trap |-> FALSE]

iterator_advance(it, n, m, g) ==
    IF it.impl = NULL THEN [it |-> it, r |-> FALSE, trap |-> FALSE]
    ELSE AdvanceLoop(it, 0, n, m, g)

RECURSIVE iterator_reset(_, _, _)
\* iterator_reset that puts an array iterator back before its first element
iterator_reset_before_first(it, m, g) ==
    IF it.impl = NULL THEN it
    ELSE CASE it.category = "INPUT_ITERATOR" ->
                [it EXCEPT !.impl.current = it.impl.start,
                           !.current = RangeCurPtr(it.impl.id)]
           [] it.category = "FORWARD_ITERATOR" ->
                [it EXCEPT !.impl.index = NPOS, !.current = NULL]
           [] it.category = "ZIP_ITERATOR" ->
                LET zip_iter == it.impl
                    it1 == [it EXCEPT
                              !.impl.iterators =
                                  [i \in 0..(zip_iter.count - 1) |->
                                      iterator_reset(zip_iter.iterators[i], m, g)],
                              !.impl.valid =
                                  [i \in 0..(zip_iter.count - 1) |-> TRUE]]
                IN  NextOp(it1, m, g).it
           [] it.category = "FILTER_ITERATOR" ->
                [it EXCEPT !.impl.source = iterator_reset(it.impl.source, m, g)]
           [] it.category = "MAP_ITERATOR" ->
                [it EXCEPT !.impl.source = iterator_reset(it.impl.source, m, g)]
           [] OTHER -> it

\* iterator_reset that re-seeds the current of a filter or map iterator from
\* its source
iterator_reset_reseed(it, m, g) ==
    IF it.impl = NULL THEN it
    ELSE CASE it.category = "INPUT_ITERATOR" ->
                [it EXCEPT !.impl.current = it.impl.start,
                           !.current = RangeCurPtr(it.impl.id)]
           [] it.category = "FORWARD_ITERATOR" ->
                [it EXCEPT !.impl.index = 0,
                           !.current = ElemAt(it.impl.elements, it.impl.size, 0,
                                              GarbageAt(g, it.impl.table))]
           [] it.category = "ZIP_ITERATOR" ->
                LET zip_iter == it.impl
                    it1 == [it EXCEPT
                              !.impl.iterators =
                                  [i \in 0..(zip_iter.count - 1) |->
                                      iterator_reset(zip_iter.iterators[i], m, g)],
                              !.impl.valid =
                                  [i \in 0..(zip_iter.count - 1) |-> TRUE]]
                IN  NextOp(it1, m, g).it
           [] it.category \in {"FILTER_ITERATOR", "MAP_ITERATOR"} ->
                LET source == iterator_reset(it.impl.source, m, g)
                IN  [it EXCEPT !.impl.source = source, !.current = DerefOp(source)]
           [] OTHER -> it

\* iterator_reset that puts an array iterator before its first element
iterator_reset_before(it, m, g) ==
    IF it.impl = NULL THEN it
    ELSE IF it.category = "FORWARD_ITERATOR"
    THEN [it EXCEPT !.impl.index = NPOS, !.current = NULL]
    ELSE it

\* The zip case ends in it->next(it); the sources of a zip are arrays and
\* ranges here, whose next makes no callback, so that call returns.
iterator_reset(it, m, g) ==
    IF it.impl = NULL THEN it
    ELSE CASE it.category = "INPUT_ITERATOR" ->
                [it EXCEPT !.impl.current = it.impl.start,
                           !.current = RangeCurPtr(it.impl.id)]
           [] it.category = "FORWARD_ITERATOR" ->
                [it EXCEPT !.impl.index = 0,
                           !.current = ElemAt(it.impl.elements, it.impl.size, 0,
                                              GarbageAt(g, it.impl.table))]
           [] it.category = "ZIP_ITERATOR" ->
                LET zip_iter == it.impl
                    it1 == [it EXCEPT
                              !.impl.iterators =
                                  [i \in 0..(zip_iter.count - 1) |->
                                      iterator_reset(zip_iter.iterators[i], m, g)],
                              !.impl.valid =
                                  [i \in 0..(zip_iter.count - 1) |-> TRUE]]
                IN  NextOp(it1, m, g).it
           [] it.category = "FILTER_ITERATOR" ->
                [it EXCEPT !.impl.source = iterator_reset(it.impl.source, m, g)]
           [] it.category = "MAP_ITERATOR" ->
                [it EXCEPT !.impl.source = iterator_reset(it.impl.source, m, g)]
           [] OTHER -> it

\* -------------------------------------------------------------------- equal
\* compares the index alone
generic_array_equal_index(a, b) ==
    a.impl.index = b.impl.index

\* ia->elements == ib->elements compares the addresses of the two tables
generic_array_equal(a, b) ==
    a.impl.index = b.impl.index /\ a.impl.table = b.impl.table

range_equal(a, b) ==
    /\ a.impl.current = b.impl.current
    /\ a.impl.end = b.impl.end
    /\ a.impl.step = b.impl.step

RECURSIVE EqualOp(_, _)

multi_zip_equal(a, b) ==
    IF a.impl.count # b.impl.count THEN FALSE
    ELSE \A i \in 0..(a.impl.count - 1) :
            EqualOp(a.impl.iterators[i], b.impl.iterators[i])

filter_equal(a, b) == EqualOp(a.impl.source, b.impl.source)

map_equal(a, b) == EqualOp(a.impl.source, b.impl.source)

\* a->equal(a, b)
EqualOp(a, b) ==
    CASE a.category = "FORWARD_ITERATOR" -> generic_array_equal(a, b)
      [] a.category = "INPUT_ITERATOR"   -> range_equal(a, b)
      [] a.category = "ZIP_ITERATOR"     -> multi_zip_equal(a, b)
      [] a.category = "FILTER_ITERATOR"  -> filter_equal(a, b)
      [] a.category = "MAP_ITERATOR"     -> map_equal(a, b)

\* --------------------------------------------- utilities taking a copy
\* iterator_to_array, iterator_foreach, iterator_find, iterator_any and
\* iterator_all receive the Iterator struct by value: the callee's `it` has a
\* current field of its own and the caller's impl pointer, so every advance
\* it makes moves the variant state the caller's iterator refers to.  Each of
\* them yields the callee's copy on return (it), its result, the elements it
\* handed to the callback or stored (seen) and the advance calls it made.
NoBlock == [tag |-> "null"]
Block(cells) == [tag |-> "block", cells |-> cells]
Unwritten == [set |-> FALSE]
Written(n) == [set |-> TRUE, n |-> n]

\* the caller's iterator once a callee that worked on `copy` has returned
\* a callee whose copy had variant state of its own
AfterCall_apart(it, copy) == it

AfterCall(it, copy) == [it EXCEPT !.impl = copy.impl]

\* what the callee's copy hands out after a successful advance
Visited(it, m) == [ptr |-> DerefOp(it), val |-> Load(it, m, DerefOp(it))]

compare_ints(it, m, a, b) == IntSub(Load(it, m, a), Load(it, m, b))

\* cmp(current, value) == 0, with the outcomes of CallPred: compare_ints
\* reads *(int *)current
CallCmpIsZero(cmp, it, m, current, value) ==
    CASE cmp = "compare_ints" ->
            IF PointsToInt(current)
            THEN [trap |-> FALSE, r |-> compare_ints(it, m, current, value) = 0]
            ELSE [trap |-> TRUE, r |-> FALSE]

RECURSIVE ToArrayLoop(_, _, _, _, _, _)
\* the while loop of iterator_to_array; array holds the n entries stored so
\* far and the fail-th call of realloc returns NULL (fail = 0: none does)
ToArrayLoop(it, array, calls, fail, m, g) ==
    LET s == NextOp(it, m, g)
        n == Len(array)
    IN  IF s.trap
        THEN [it |-> s.it, array |-> NoBlock, count |-> Unwritten,
              seen |-> array, calls |-> calls + 1, failed |-> FALSE, trap |-> TRUE]
        ELSE IF s.r
        THEN LET element == DerefOp(s.it) IN
             IF n + 1 = fail
             THEN [it |-> s.it, array |-> NoBlock, count |-> Unwritten,
                   seen |-> array, calls |-> calls + 1, failed |-> TRUE,
                   trap |-> FALSE]
             ELSE ToArrayLoop(s.it, Append(array, element), calls + 1, fail, m, g)
        ELSE [it |-> s.it,
              array |-> IF n = 0 THEN NoBlock ELSE Block(array),
              count |-> Written(n),
              seen |-> array, calls |-> calls + 1, failed |-> FALSE, trap |-> FALSE]

\* iterator_to_array whose loop leaves the last element out
iterator_to_array_short(it, fail, m, g) ==
    LET l == ToArrayLoop(it, <<>>, 0, fail, m, g) IN
    IF l.trap \/ l.failed \/ Len(l.seen) = 0 THEN l
    ELSE [l EXCEPT !.array = Block(SubSeq(l.seen, 1, Len(l.seen) - 1)),
                   !.count = Written(Len(l.seen) - 1)]

iterator_to_array(it, fail, m, g) == ToArrayLoop(it, <<>>, 0, fail, m, g)

\* func(element) for print_int, which reads *(int *)element: the callback is
\* killed by a signal when element is neither an element nor a block
CallFunc(element) == [trap |-> element.tag \in {"null", "wild"}]

RECURSIVE ForeachLoop(_, _, _, _, _)
ForeachLoop(it, seen, calls, m, g) ==
    LET s == NextOp(it, m, g) IN
    IF s.trap
    THEN [it |-> s.it, seen |-> seen, calls |-> calls + 1, trap |-> TRUE]
    ELSE IF s.r
    THEN LET seen1 == Append(seen, Visited(s.it, m)) IN
         IF CallFunc(DerefOp(s.it)).trap
         THEN [it |-> s.it, seen |-> seen1, calls |-> calls + 1, trap |-> TRUE]
         ELSE ForeachLoop(s.it, seen1, calls + 1, m, g)
    ELSE [it |-> s.it, seen |-> seen, calls |-> calls + 1, trap |-> FALSE]

\* func is called on every element in seen, in that order
iterator_foreach(it, m, g) == ForeachLoop(it, <<>>, 0, m, g)

RECURSIVE FindLoop(_, _, _, _, _, _, _)
FindLoop(it, value, cmp, seen, calls, m, g) ==
    LET s == NextOp(it, m, g) IN
    IF s.trap
    THEN [it |-> s.it, r |-> NULL, seen |-> seen, calls |-> calls + 1, trap |-> TRUE]
    ELSE IF s.r
    THEN LET current == DerefOp(s.it)
             seen1   == Append(seen, Visited(s.it, m))
             c       == CallCmpIsZero(cmp, s.it, m, current, value)
         IN  IF c.trap
             THEN [it |-> s.it, r |-> NULL, seen |-> seen1, calls |-> calls + 1,
                   trap |-> TRUE]
             ELSE IF c.r
             THEN [it |-> s.it, r |-> current, seen |-> seen1, calls |-> calls + 1,
                   trap |-> FALSE]
             ELSE FindLoop(s.it, value, cmp, seen1, calls + 1, m, g)
    ELSE [it |-> s.it, r |-> NULL, seen |-> seen, calls |-> calls + 1, trap |-> FALSE]

\* iterator_find that steps once past the element it found
iterator_find_past(it, value, cmp, m, g) ==
    LET l == FindLoop(it, value, cmp, <<>>, 0, m, g) IN
    IF l.trap \/ Len(l.seen) < l.calls THEN l
    ELSE [l EXCEPT !.it = NextOp(l.it, m, g).it, !.calls = l.calls + 1]

iterator_find(it, value, cmp, m, g) == FindLoop(it, value, cmp, <<>>, 0, m, g)

RECURSIVE AnyLoop(_, _, _, _, _, _)
AnyLoop(it, pred, seen, calls, m, g) ==
    LET s == NextOp(it, m, g) IN
    IF s.trap
    THEN [it |-> s.it, r |-> FALSE, seen |-> seen, calls |-> calls + 1, trap |-> TRUE]
    ELSE IF s.r
    THEN LET seen1 == Append(seen, Visited(s.it, m))
             c     == CallPred(pred, s.it, m, DerefOp(s.it))
         IN  IF c.trap
             THEN [it |-> s.it, r |-> FALSE, seen |-> seen1, calls |-> calls + 1,
                   trap |-> TRUE]
             ELSE IF c.r
             THEN [it |-> s.it, r |-> TRUE, seen |-> seen1, calls |-> calls + 1,
                   trap |-> FALSE]
             ELSE AnyLoop(s.it, pred, seen1, calls + 1, m, g)
    ELSE [it |-> s.it, r |-> FALSE, seen |-> seen, calls |-> calls + 1, trap |-> FALSE]

\* iterator_any that reports success when it runs out of elements
iterator_any_vacuous(it, pred, m, g) ==
    LET l == AnyLoop(it, pred, <<>>, 0, m, g) IN
    IF Len(l.seen) = 0 THEN [l EXCEPT !.r = TRUE] ELSE l

iterator_any(it, pred, m, g) == AnyLoop(it, pred, <<>>, 0, m, g)

RECURSIVE AllLoop(_, _, _, _, _, _)
AllLoop(it, pred, seen, calls, m, g) ==
    LET s == NextOp(it, m, g) IN
    IF s.trap
    THEN [it |-> s.it, r |-> FALSE, seen |-> seen, calls |-> calls + 1, trap |-> TRUE]
    ELSE IF s.r
    THEN LET seen1 == Append(seen, Visited(s.it, m))
             c     == CallPred(pred, s.it, m, DerefOp(s.it))
         IN  IF c.trap
             THEN [it |-> s.it, r |-> FALSE, seen |-> seen1, calls |-> calls + 1,
                   trap |-> TRUE]
             ELSE IF ~c.r
             THEN [it |-> s.it, r |-> FALSE, seen |-> seen1, calls |-> calls + 1,
                   trap |-> FALSE]
             ELSE AllLoop(s.it, pred, seen1, calls + 1, m, g)
    ELSE [it |-> s.it, r |-> TRUE, seen |-> seen, calls |-> calls + 1, trap |-> FALSE]

\* iterator_all that visits every element before it answers
iterator_all_full(it, pred, m, g) ==
    LET l == ForeachLoop(it, <<>>, 0, m, g)
        a == AllLoop(it, pred, <<>>, 0, m, g)
    IN  IF a.trap THEN a
        ELSE [it |-> l.it, r |-> a.r, seen |-> l.seen, calls |-> l.calls,
              trap |-> FALSE]

iterator_all(it, pred, m, g) == AllLoop(it, pred, <<>>, 0, m, g)

\* ---------------------------------------------------------------- sorting
compare_int(m, a, b) == IntSub(Load(NULL, m, a), Load(NULL, m, b))

\* a caller-supplied comparator for the opposite order
compare_desc(m, a, b) == IntSub(Load(NULL, m, b), Load(NULL, m, a))

\* caller-supplied comparators that are no order: every element is greater
\* than every element, ...
compare_greater(m, a, b) == 1

\* ... every element is smaller than every element, ...
compare_smaller(m, a, b) == -1

\* ... and each value beats the next one cyclically (v over v - 1 modulo 3)
compare_cycle(m, a, b) ==
    LET d == (Load(NULL, m, a) - Load(NULL, m, b)) % 3
    IN  CASE d = 0 -> 0 [] d = 1 -> 1 [] d = 2 -> -1

\* compare(a, b)
Compare(compare, m, a, b) ==
    CASE compare = "compare_int"     -> compare_int(m, a, b)
      [] compare = "compare_desc"    -> compare_desc(m, a, b)
      [] compare = "compare_greater" -> compare_greater(m, a, b)
      [] compare = "compare_smaller" -> compare_smaller(m, a, b)
      [] compare = "compare_cycle"   -> compare_cycle(m, a, b)

\* Instrumentation: a table record may carry ncmp, the number of calls of
\* the comparator made on it so far; Called counts k more of them.
Called(iter, k) ==
    IF "ncmp" \in DOMAIN iter THEN [iter EXCEPT !.ncmp = @ + k] ELSE iter

\* swap_elements that forgets to store temp back
swap_elements_copy(iter, i, j) ==
    [iter EXCEPT !.elements[i] = iter.elements[j]]

swap_elements(iter, i, j) ==
    [iter EXCEPT !.elements[i] = iter.elements[j],
                 !.elements[j] = iter.elements[i]]

\* A loop of the source is an operator over the loop's state (the table and
\* the loop variables) that runs the next k iterations: none once the loop
\* condition has failed, the body for k = 1, and for more the first half of
\* them followed by the rest. Each loop is given a k no smaller than the
\* number of iterations it can make.

\* one test of the while condition of insertion_sort, with the body when it
\* holds; st.j is the slot of the element on its way down and st.done tells
\* that the condition has failed
InsertionStep(st, compare, m) ==
    IF st.j > 0
    THEN IF Compare(compare, m, st.iter.elements[st.j - 1], st.iter.elements[st.j]) > 0
         THEN [iter |-> Called(swap_elements(st.iter, st.j, st.j - 1), 1),
               j |-> st.j - 1, done |-> FALSE]
         ELSE [iter |-> Called(st.iter, 1), j |-> st.j, done |-> TRUE]
    ELSE [st EXCEPT !.done = TRUE]

RECURSIVE InsertionWhile(_, _, _, _)
\* the next k tests of the while condition
InsertionWhile(st, k, compare, m) ==
    IF st.done THEN st
    ELSE CASE k = 1 -> InsertionStep(st, compare, m)
           [] k > 1 -> InsertionWhile(InsertionWhile(st, k \div 2, compare, m),
                                      k - (k \div 2), compare, m)
           [] OTHER -> st

\* the while loop of insertion_sort: j only decreases, so the condition is
\* tested at most j + 1 times
InsertionInner(iter, j, compare, m) ==
    InsertionWhile([iter |-> iter, j |-> j, done |-> FALSE], j + 1, compare, m).iter

RECURSIVE InsertionOuter(_, _, _, _)
\* the next k iterations of for (i; i < iter->size; i++) of insertion_sort
InsertionOuter(st, k, compare, m) ==
    IF st.i >= st.iter.size THEN st
    ELSE CASE k = 1 -> [iter |-> InsertionInner(st.iter, st.i, compare, m),
                        i |-> st.i + 1]
           [] k > 1 -> InsertionOuter(InsertionOuter(st, k \div 2, compare, m),
                                      k - (k \div 2), compare, m)
           [] OTHER -> st

\* insertion_sort whose outer loop stops halfway through the table
insertion_sort_half(it, compare, m) ==
    [it EXCEPT !.impl = InsertionOuter([iter |-> it.impl, i |-> 1],
                                       it.impl.size \div 2, compare, m).iter]

\* insertion_sort whose outer loop starts one slot late
insertion_sort_late(it, compare, m) ==
    [it EXCEPT !.impl = InsertionOuter([iter |-> it.impl, i |-> 2],
                                       it.impl.size, compare, m).iter]

insertion_sort(it, compare, m) ==
    [it EXCEPT !.impl = InsertionOuter([iter |-> it.impl, i |-> 1],
                                       it.impl.size, compare, m).iter]

RECURSIVE HeapifyImpl_left(_, _, _, _, _)
\* heapify that never looks at the right child
HeapifyImpl_left(iter, n, i, compare, m) ==
    LET left  == 2 * i + 1
        largest == IF left < n /\ Compare(compare, m, iter.elements[left], iter.elements[i]) > 0
                   THEN left ELSE i
        iter1 == Called(iter, IF left < n THEN 1 ELSE 0)
    IN  IF largest # i
        THEN HeapifyImpl_left(swap_elements(iter1, i, largest), n, largest, compare, m)
        ELSE iter1

RECURSIVE HeapifyImpl(_, _, _, _, _)
HeapifyImpl(iter, n, i, compare, m) ==
    LET left  == 2 * i + 1
        right == 2 * i + 2
        l1 == IF left < n /\ Compare(compare, m, iter.elements[left], iter.elements[i]) > 0
              THEN left ELSE i
        largest == IF right < n /\
                      Compare(compare, m, iter.elements[right], iter.elements[l1]) > 0
                   THEN right ELSE l1
        iter1 == Called(iter, (IF left < n THEN 1 ELSE 0) + (IF right < n THEN 1 ELSE 0))
    IN  IF largest # i
        THEN HeapifyImpl(swap_elements(iter1, i, largest), n, largest, compare, m)
        ELSE iter1

heapify(it, n, i, compare, m) ==
    [it EXCEPT !.impl = HeapifyImpl(it.impl, n, i, compare, m)]

RECURSIVE HeapBuild(_, _, _, _)
\* the next k iterations of
\* for (int i = n / 2 - 1; i >= 0; i--) heapify(it, n, i, compare)
HeapBuild(st, k, compare, m) ==
    IF st.i < 0 THEN st
    ELSE CASE k = 1 -> [it |-> heapify(st.it, st.it.impl.size, st.i, compare, m),
                        i  |-> st.i - 1]
           [] k > 1 -> HeapBuild(HeapBuild(st, k \div 2, compare, m),
                                 k - (k \div 2), compare, m)
           [] OTHER -> st

RECURSIVE HeapExtract(_, _, _, _)
\* the next k iterations of
\* for (int i = n - 1; i > 0; i--) { swap(0, i); heapify(it, i, 0, compare); }
HeapExtract(st, k, compare, m) ==
    IF st.i <= 0 THEN st
    ELSE CASE k = 1 -> [it |-> heapify([st.it EXCEPT
                                           !.impl = swap_elements(st.it.impl, 0, st.i)],
                                       st.i, 0, compare, m),
                        i  |-> st.i - 1]
           [] k > 1 -> HeapExtract(HeapExtract(st, k \div 2, compare, m),
                                   k - (k \div 2), compare, m)
           [] OTHER -> st

\* heap_sort that stops once the heap is built
heap_sort_build(it, compare, m) ==
    LET n == it.impl.size
    IN  HeapBuild([it |-> it, i |-> (n \div 2) - 1], n, compare, m).it

heap_sort(it, compare, m) ==
    LET n     == it.impl.size
        built == HeapBuild([it |-> it, i |-> (n \div 2) - 1], n, compare, m).it
    IN  HeapExtract([it |-> built, i |-> n - 1], n, compare, m).it

\* the loop body with < in place of <=
PartitionStep_strict(st, pivot, compare, m) ==
    IF Compare(compare, m, st.iter.elements[st.j], pivot) < 0
    THEN [iter |-> Called(swap_elements(st.iter, st.i, st.j), 1),
          i |-> st.i + 1, j |-> st.j + 1]
    ELSE [iter |-> Called(st.iter, 1), i |-> st.i, j |-> st.j + 1]

\* the body of the for loop of partition; st.i is the end of the left part
PartitionStep(st, pivot, compare, m) ==
    IF Compare(compare, m, st.iter.elements[st.j], pivot) <= 0
    THEN [iter |-> Called(swap_elements(st.iter, st.i, st.j), 1),
          i |-> st.i + 1, j |-> st.j + 1]
    ELSE [iter |-> Called(st.iter, 1), i |-> st.i, j |-> st.j + 1]

RECURSIVE PartitionLoop(_, _, _, _, _, _)
\* the next k iterations of for (int j = low; j < high; j++) of partition
PartitionLoop(st, k, high, pivot, compare, m) ==
    IF st.j >= high THEN st
    ELSE CASE k = 1 -> PartitionStep(st, pivot, compare, m)
           [] k > 1 -> PartitionLoop(PartitionLoop(st, k \div 2, high, pivot, compare, m),
                                     k - (k \div 2), high, pivot, compare, m)
           [] OTHER -> st

\* partition that returns low instead of the slot it put the pivot in
partition_low(it, low, high, compare, m) ==
    LET l == PartitionLoop([iter |-> it.impl, i |-> low, j |-> low], high - low,
                           high, it.impl.elements[high], compare, m)
    IN  [it |-> [it EXCEPT !.impl = swap_elements(l.iter, l.i, high)], p |-> low]

\* yields [it |-> the iterator afterwards, p |-> the returned pivot index]
partition(it, low, high, compare, m) ==
    LET l == PartitionLoop([iter |-> it.impl, i |-> low, j |-> low], high - low,
                           high, it.impl.elements[high], compare, m)
    IN  [it |-> [it EXCEPT !.impl = swap_elements(l.iter, l.i, high)], p |-> l.i]

\* Instrumentation: a table record may carry trace, one entry per call of
\* introsort_impl that has run, in the order they ran: the arguments of the
\* call, the branch it took and the table before and after that branch.
Entered(c, branch, before, after) ==
    IF "trace" \in DOMAIN after.impl
    THEN [after EXCEPT !.impl.trace =
             Append(@, [begin |-> c.begin, end |-> c.end,
                        depth_limit |-> c.depth_limit, branch |-> branch,
                        before |-> before.impl.elements,
                        after |-> after.impl.elements])]
    ELSE after

\* a call of introsort_impl(it, begin, end, depth_limit, compare)
IntrosortCall(begin, end, depth_limit) ==
    [begin |-> begin, end |-> end, depth_limit |-> depth_limit]

\* introsort_impl that never falls back on heap_sort
IntrosortBody_deep(st, compare, m) ==
    LET c    == Head(st.calls)
        rest == Tail(st.calls)
        size == c.end - c.begin + 1
    IN  IF size < SORT_THRESHOLD
        THEN [it |-> Entered(c, "insertion_sort", st.it,
                             insertion_sort(st.it, compare, m)),
              calls |-> rest]
        ELSE LET q     == partition(st.it, c.begin, c.end, compare, m)
                 pivot == q.p
                 left  == IF pivot > c.begin + 1
                          THEN <<IntrosortCall(c.begin, pivot - 1, c.depth_limit - 1)>>
                          ELSE <<>>
                 right == IF pivot + 1 < c.end
                          THEN <<IntrosortCall(pivot + 1, c.end, c.depth_limit - 1)>>
                          ELSE <<>>
             IN  [it |-> Entered(c, "partition", st.it, q.it),
                  calls |-> left \o right \o rest]

\* The body of introsort_impl for the call at the head of st.calls, the calls
\* that have been made and have not run yet, in the order in which they run:
\* the two recursive calls of the body go in front of the others.
IntrosortBody(st, compare, m) ==
    LET c    == Head(st.calls)
        rest == Tail(st.calls)
        size == c.end - c.begin + 1
    IN  IF size < SORT_THRESHOLD
        THEN [it |-> Entered(c, "insertion_sort", st.it,
                             insertion_sort(st.it, compare, m)),
              calls |-> rest]
        ELSE IF c.depth_limit = 0
        THEN [it |-> Entered(c, "heap_sort", st.it, heap_sort(st.it, compare, m)),
              calls |-> rest]
        ELSE LET q     == partition(st.it, c.begin, c.end, compare, m)
                 pivot == q.p
                 left  == IF pivot > c.begin + 1
                          THEN <<IntrosortCall(c.begin, pivot - 1, c.depth_limit - 1)>>
                          ELSE <<>>
                 right == IF pivot + 1 < c.end
                          THEN <<IntrosortCall(pivot + 1, c.end, c.depth_limit - 1)>>
                          ELSE <<>>
             IN  [it |-> Entered(c, "partition", st.it, q.it),
                  calls |-> left \o right \o rest]

RECURSIVE IntrosortRun(_, _, _, _)
\* the next k calls of introsort_impl
IntrosortRun(st, k, compare, m) ==
    IF st.calls = <<>> THEN st
    ELSE CASE k = 1 -> IntrosortBody(st, compare, m)
           [] k > 1 -> IntrosortRun(IntrosortRun(st, k \div 2, compare, m),
                                    k - (k \div 2), compare, m)
           [] OTHER -> st

RECURSIVE IntrosortReturn(_, _, _, _)
\* runs calls, k of them and then more than twice as many, until none is left
IntrosortReturn(st, k, compare, m) ==
    IF st.calls = <<>> THEN st.it
    ELSE IntrosortReturn(IntrosortRun(st, k, compare, m), 2 * k + 1, compare, m)

introsort_impl(it, begin, end, depth_limit, compare, m) ==
    IntrosortReturn([it |-> it, calls |-> <<IntrosortCall(begin, end, depth_limit)>>],
                    end - begin + 1, compare, m)

RECURSIVE FloorLog2(_)
FloorLog2(x) == IF x <= 1 THEN 0 ELSE 1 + FloorLog2(x \div 2)

\* a depth budget of twice the truncated logarithm
DepthLimit_floor(size) == 2 * FloorLog2(size)

\* int depth_limit = 2 * log2(size): the double 2*log2(n) truncated to int
DepthLimit(size) == FloorLog2(size * size)

\* generic_sort that leaves the cursor where it was
generic_sort_keep(it, compare, m) ==
    IF it = NULL \/ it.impl = NULL THEN it
    ELSE IF it.impl.size <= 1 THEN it
    ELSE introsort_impl(it, 0, it.impl.size - 1, DepthLimit(it.impl.size), compare, m)

\* generic_sort without the early return for tables of at most one element
generic_sort_always(it, compare, m) ==
    IF it = NULL \/ it.impl = NULL THEN it
    ELSE LET s == introsort_impl(it, 0, it.impl.size - 1,
                                 DepthLimit(it.impl.size), compare, m)
         IN  [s EXCEPT !.impl.index = 0,
                       !.current = ElemAt(s.impl.elements, s.impl.size, 0, NULL)]

\* `it` is the Iterator the argument points at, NULL for a null argument
generic_sort(it, compare, m) ==
    IF it = NULL \/ it.impl = NULL THEN it
    ELSE IF it.impl.size <= 1 THEN it
    ELSE LET s == introsort_impl(it, 0, it.impl.size - 1,
                                 DepthLimit(it.impl.size), compare, m)
         IN  [s EXCEPT !.impl.index = 0, !.current = s.impl.elements[0]]

\* ------------------------------------------------------------ configurations
\* What the caller builds before the first operation.  A configuration is
\*   [k |-> "array", data, esize] | [k |-> "range", start, end, step]
\* | [k |-> "filter", src, fn]    | [k |-> "map", src, fn] | [k |-> "zip", srcs]
PredFns == {"is_even", "always", "never"}
MapFns == {"square", "self"}
Comparators == {"compare_int", "compare_desc"}
\* comparators that break the contract of CompareFunc
WildComparators == {"compare_greater", "compare_smaller", "compare_cycle"}

ArrayCfg(data, esize) == [k |-> "array", data |-> data, esize |-> esize]
RangeCfg(start, end, step) == [k |-> "range", start |-> start, end |-> end, step |-> step]

Steps == (-MaxStep..MaxStep) \ {0}
ArrayData == UNION {[1..n -> 1..MaxVal] : n \in 0..MaxLen}
\* int buffers with every content, char* buffers with one content per length
ArrayCfgs ==
    {ArrayCfg(d, 4) : d \in ArrayData} \cup
    {ArrayCfg([i \in 1..n |-> 1 + (i % MaxVal)], 8) : n \in 0..MaxLen}
RangeCfgs == {RangeCfg(s, e, st) : s \in -MaxRange..MaxRange, e \in -MaxRange..MaxRange, st \in Steps}

\* sources handed to filter_iterator and map_iterator
SourceCfgs ==
    {ArrayCfg(d, 4) : d \in UNION {[1..n -> 1..MaxVal] : n \in 0..MaxSrcLen}} \cup
    {RangeCfg(s, e, st) : s \in 0..1, e \in 0..MaxRange, st \in Steps}

\* sources handed to multi_zip_iterators: source i wraps a buffer of its own
ZipData(i, n) == [j \in 1..n |-> 10 * i + j]
ZipSourceCfgs(i) ==
    {ArrayCfg(ZipData(i, n), 4) : n \in 0..MaxZipLen} \cup
    {RangeCfg(0, 2, 1), RangeCfg(0, 0, 1)}
ZipCfgs ==
    UNION {{[k |-> "zip", srcs |-> f] :
                f \in {f \in [0..(n - 1) -> UNION {ZipSourceCfgs(i) : i \in 0..(n - 1)}] :
                          \A i \in 0..(n - 1) : f[i] \in ZipSourceCfgs(i)}}
           : n \in 1..MaxZip}

\* the scenarios of examples/code1.c
ExampleCfgs ==
    {ArrayCfg(<<1, 2, 3, 4, 5>>, 4),
     RangeCfg(0, 10, 2),
     [k |-> "zip", srcs |-> [i \in 0..2 |->
         ArrayCfg(<<<<1, 2, 3>>, <<4, 5, 6, 7>>, <<7, 8, 9>>>>[i + 1], 4)]],
     [k |-> "filter", src |-> ArrayCfg(<<1, 2, 3, 4, 5, 6>>, 4), fn |-> "is_even"],
     [k |-> "map", src |-> ArrayCfg(<<1, 2, 3, 4, 5>>, 4), fn |-> "square"],
     ArrayCfg(<<10, 20, 30, 40, 50>>, 4),
     ArrayCfg(<<100, 200, 300, 400, 500>>, 4),
     ArrayCfg(<<7, 8, 9, 10, 11>>, 4),
     ArrayCfg(<<20, 21, 22, 23, 24>>, 4),
     ArrayCfg(<<25, 26, 27, 28, 29>>, 4),
     ArrayCfg(<<30, 32, 34, 36, 38>>, 4)}

\* the malloc call of its constructor that fails while c is built, 0 for none
FailOf(c) == IF "fail" \in DOMAIN c THEN c.fail ELSE 0

\* c built while malloc call number fail of its constructor returns NULL
Failing(c, fail) ==
    CASE c.k = "array"  -> [k |-> c.k, data |-> c.data, esize |-> c.esize, fail |-> fail]
      [] c.k = "range"  -> [k |-> c.k, start |-> c.start, end |-> c.end,
                            step |-> c.step, fail |-> fail]
      [] c.k \in {"filter", "map"} -> [k |-> c.k, src |-> c.src, fn |-> c.fn, fail |-> fail]
      [] c.k = "zip"    -> [k |-> c.k, srcs |-> c.srcs, fail |-> fail]

\* constructions that fail: create_range_iterator(0, 1, 0), and one of every
\* variant for each malloc call of its constructor
FailedCfgs ==
    {RangeCfg(0, 1, 0)} \cup
    {Failing(ArrayCfg(<<1, 2>>, 4), f) : f \in 1..2} \cup
    {Failing(RangeCfg(0, 2, 1), 1)} \cup
    {Failing([k |-> "filter", src |-> ArrayCfg(<<1, 2>>, 4), fn |-> "is_even"], 1)} \cup
    {Failing([k |-> "map", src |-> ArrayCfg(<<1, 2>>, 4), fn |-> "square"], 1)} \cup
    {Failing([k |-> "zip", srcs |-> [i \in 0..1 |-> ArrayCfg(ZipData(i, 2), 4)]], f) :
        f \in 1..4}

\* three sources of which the middle one is the shortest
StaggeredZipCfgs ==
    {[k |-> "zip", srcs |-> [i \in 0..2 |-> ArrayCfg(ZipData(i, <<2, 1, 2>>[i + 1]), 4)]]}

Cfgs ==
    ArrayCfgs \cup RangeCfgs \cup ZipCfgs \cup ExampleCfgs \cup FailedCfgs \cup
    StaggeredZipCfgs \cup
    {[k |-> "filter", src |-> c, fn |-> f] : c \in SourceCfgs, f \in PredFns} \cup
    {[k |-> "map", src |-> c, fn |-> f] : c \in SourceCfgs, f \in MapFns}

\* a leaf built over buffer / range block number i
BuildLeaf(c, i) ==
    IF c.k = "array"
    THEN create_generic_array_iterator(i, i, Len(c.data), c.esize, FailOf(c))
    ELSE create_range_iterator(i, c.start, c.end, c.step, FailOf(c))

BuildIt(c) ==
    CASE c.k \in {"array", "range"} -> BuildLeaf(c, 0)
      [] c.k = "filter" -> filter_iterator(BuildLeaf(c.src, 0), c.fn, FailOf(c))
      [] c.k = "map"    -> map_iterator(BuildLeaf(c.src, 0), c.fn, FailOf(c))
      [] c.k = "zip"    ->
            multi_zip_iterators([i \in DOMAIN c.srcs |-> BuildLeaf(c.srcs[i], i)],
                                Cardinality(DOMAIN c.srcs), FailOf(c))

LeafMem(c) ==
    IF c.k = "array" THEN [data |-> c.data, esize |-> c.esize]
    ELSE [data |-> <<>>, esize |-> 4]

\* the caller's buffers, by base
BuildMem(c) ==
    CASE c.k \in {"array", "range"} -> [i \in {0} |-> LeafMem(c)]
      [] c.k \in {"filter", "map"}  -> [i \in {0} |-> LeafMem(c.src)]
      [] c.k = "zip"                -> [i \in DOMAIN c.srcs |-> LeafMem(c.srcs[i])]

RECURSIVE EmptyTables(_)
\* the heap blocks of the empty pointer tables inside `i`
EmptyTables(i) ==
    CASE i.impl = NULL -> {}
      [] i.category = "FORWARD_ITERATOR" ->
            IF i.impl.size = 0 THEN {i.impl.table} ELSE {}
      [] i.category \in {"FILTER_ITERATOR", "MAP_ITERATOR"} -> EmptyTables(i.impl.source)
      [] i.category = "ZIP_ITERATOR" ->
            UNION {EmptyTables(i.impl.iterators[j]) : j \in 0..(i.impl.count - 1)}
      [] OTHER -> {}

\* some array iterator inside `i` wraps an empty table
HasEmptyTable(i) == EmptyTables(i) # {}

\* what reading slot 0 of the empty tables may yield, table by table; nothing
\* else reads out of bounds
Garbage(i) == [EmptyTables(i) -> WildPointers]

RECURSIVE ProducesInts(_)
\* the elements of `i` are addresses of ints, as is_even and compare_ints expect
ProducesInts(i) ==
    CASE i.category \in {"FILTER_ITERATOR", "MAP_ITERATOR"} -> ProducesInts(i.impl.source)
      [] i.category = "ZIP_ITERATOR" -> FALSE
      [] OTHER -> TRUE

\* the predicates a caller may hand over together with `i`
PredsFor(i) == IF ProducesInts(i) THEN PredFns ELSE {"always", "never"}

\* the values iterator_find is asked to look for
FindValues == {0, 1, 22}

\* ------------------------------------------------------------------ release
\* A heap block is named by the iterator it was allocated for (owner: the
\* path from the caller's iterator down to it, source by source) and by the
\* variable the constructor keeps it in.
HeapBlock(owner, field) == [owner |-> owner, field |-> field]

RECURSIVE Allocated(_, _)
\* the blocks the constructors of `i` and of the iterators it owns obtained
\* from malloc
Allocated(i, owner) ==
    CASE i.impl = NULL -> {}
      [] i.category = "FORWARD_ITERATOR" ->
            {HeapBlock(owner, "elements"), HeapBlock(owner, "impl")}
      [] i.category = "INPUT_ITERATOR" -> {HeapBlock(owner, "impl")}
      [] i.category \in {"FILTER_ITERATOR", "MAP_ITERATOR"} ->
            {HeapBlock(owner, "impl")} \cup Allocated(i.impl.source, Append(owner, 0))
      [] i.category = "ZIP_ITERATOR" ->
            {HeapBlock(owner, f) : f \in {"impl", "owned_iterators", "valid", "elements"}}
            \cup UNION {Allocated(i.impl.iterators[j], Append(owner, j)) :
                           j \in 0..(i.impl.count - 1)}

\* A destroy function yields the iterator it leaves and the blocks it handed
\* to free, in the order of the calls.
generic_array_destroy(i, owner) ==
    [it    |-> [i EXCEPT !.impl = NULL],
     freed |-> <<HeapBlock(owner, "elements"), HeapBlock(owner, "impl")>>]

range_destroy(i, owner) ==
    [it    |-> [i EXCEPT !.impl = NULL],
     freed |-> <<HeapBlock(owner, "impl")>>]

RECURSIVE DestroyOp(_, _)
multi_zip_destroy(i, owner) ==
    LET n == i.impl.count
        each == [j \in 0..(n - 1) |-> DestroyOp(i.impl.iterators[j], Append(owner, j)).freed]
        Upto[j \in 0..n] == IF j = 0 THEN <<>> ELSE Upto[j - 1] \o each[j - 1]
    IN  [it    |-> [i EXCEPT !.impl = NULL],
         freed |-> Upto[n] \o <<HeapBlock(owner, "owned_iterators"),
                                 HeapBlock(owner, "impl")>>]

filter_destroy(i, owner) ==
    [it    |-> [i EXCEPT !.impl = NULL],
     freed |-> DestroyOp(i.impl.source, Append(owner, 0)).freed
               \o <<HeapBlock(owner, "impl")>>]

map_destroy(i, owner) ==
    [it    |-> [i EXCEPT !.impl = NULL],
     freed |-> DestroyOp(i.impl.source, Append(owner, 0)).freed
               \o <<HeapBlock(owner, "impl")>>]

\* i.destroy(&i), for an iterator whose destroy slot is set
DestroyOp(i, owner) ==
    CASE i.category = "FORWARD_ITERATOR" -> generic_array_destroy(i, owner)
      [] i.category = "INPUT_ITERATOR"   -> range_destroy(i, owner)
      [] i.category = "ZIP_ITERATOR"     -> multi_zip_destroy(i, owner)
      [] i.category = "FILTER_ITERATOR"  -> filter_destroy(i, owner)
      [] i.category = "MAP_ITERATOR"     -> map_destroy(i, owner)

\* What a call through a null function slot may come to: the call faults
\* (TRUE), or the build has dropped the call and execution goes on (FALSE).
NullCallTraps == BOOLEAN

\* -------------------------------------------------------------- the machine
VARIABLES
    it,      \* the caller's Iterator with everything it owns
    mem,     \* the caller's buffers
    it0,     \* the iterator as constructed
    pre,     \* the iterator before the last operation
    op,      \* the last operation
    arg,     \* n of the last iterator_advance
    cmp,     \* comparator of the last generic_sort
    ret,     \* result of the last advance / iterator_advance (TRUE = success)
    got,     \* pointer returned by the last dereference
    hist,    \* results of the advance calls made since construction or the
             \* last iterator_advance / iterator_reset / generic_sort
    out,     \* [ptr, val] of the element each successful one of them produced
    clean,   \* nothing but advance and dereference has been called so far
    exh,     \* an advance has signalled exhaustion since the last reset / sort
    pexh,    \* exh before the last operation
    util     \* what the last utility taking a copy did and returned

vars == <<it, mem, it0, pre, op, arg, cmp, ret, got, hist, out, clean, exh, pexh, util>>

\* util after an operation that is not such a utility
NoUtil ==
    [calls |-> 0, seen |-> <<>>, ptr |-> NULL, flag |-> FALSE, ncmp |-> 0,
     trace |-> <<>>, array |-> NoBlock, count |-> Unwritten, failed |-> FALSE,
     freed |-> <<>>, trap |-> FALSE, other |-> NULL,
     low |-> 0, high |-> 0, p |-> 0, i |-> 0, input |-> <<>>]

InitFrom(c) ==
    /\ it = BuildIt(c)
    /\ mem = BuildMem(c)
    /\ it0 = it
    /\ pre = it
    /\ op = "create"
    /\ arg = 0
    /\ cmp = "none"
    /\ ret = FALSE
    /\ got = NULL
    /\ hist = <<>>
    /\ out = <<>>
    /\ clean = TRUE
    /\ exh = FALSE
    /\ pexh = FALSE
    /\ util = NoUtil

Init == \E c \in Cfgs : InitFrom(c)

Produced(i) == [ptr |-> DerefOp(i), val |-> Load(i, mem, DerefOp(i))]

\* it.next(&it)
\* The function slots of a zeroed iterator are null: a call through one of
\* them traps, so the run has no state after it.  Nor does a process that a
\* signal killed inside a callback make another call: util.trap closes the run.
Callable(i) == i.impl # NULL

Advance ==
    /\ ~util.trap
    /\ Callable(it)
    /\ Len(hist) < MaxAdv
    /\ \E g \in Garbage(it) :
          \E s \in {NextOp(it, mem, g)} :
          /\ it' = s.it
          /\ ret' = s.r
          /\ hist' = IF s.trap THEN hist ELSE Append(hist, s.r)
          /\ out' = IF s.r THEN Append(out, Produced(s.it)) ELSE out
          /\ exh' = (exh \/ (~s.trap /\ ~s.r))
          /\ util' = [NoUtil EXCEPT !.trap = s.trap]
    /\ pre' = it /\ op' = "next" /\ arg' = 0 /\ cmp' = "none" /\ got' = NULL
    /\ pexh' = exh
    /\ UNCHANGED <<mem, it0, clean>>

\* it.deref(&it)
Deref ==
    /\ ~util.trap
    /\ Callable(it)
    /\ got' = DerefOp(it)
    /\ pre' = it /\ op' = "deref" /\ arg' = 0 /\ cmp' = "none" /\ ret' = FALSE
    /\ pexh' = exh
    /\ util' = NoUtil
    /\ UNCHANGED <<it, mem, it0, hist, out, clean, exh>>

\* iterator_advance(&it, n)
AdvanceBy ==
    /\ ~util.trap
    /\ \E n \in 0..MaxAdvBy, g \in Garbage(it) :
          \E s \in {iterator_advance(it, n, mem, g)} :
          /\ it' = s.it
          /\ ret' = s.r
          /\ arg' = n
          /\ exh' = (exh \/ (~s.trap /\ ~s.r))
          /\ util' = [NoUtil EXCEPT !.trap = s.trap]
    /\ pre' = it /\ op' = "iterator_advance" /\ cmp' = "none" /\ got' = NULL
    /\ hist' = <<>> /\ out' = <<>> /\ clean' = FALSE
    /\ pexh' = exh
    /\ UNCHANGED <<mem, it0>>

\* iterator_reset(&it)
Reset ==
    /\ ~util.trap
    /\ \E g \in Garbage(it) : it' = iterator_reset(it, mem, g)
    /\ pre' = it /\ op' = "iterator_reset" /\ arg' = 0 /\ cmp' = "none"
    /\ ret' = FALSE /\ got' = NULL
    /\ hist' = <<>> /\ out' = <<>> /\ clean' = FALSE
    /\ exh' = FALSE /\ pexh' = exh /\ util' = NoUtil
    /\ UNCHANGED <<mem, it0>>

\* the iterator with a comparator-call counter and a trace of the
\* introsort_impl calls on its table, and without
Probe(i) ==
    IF i.impl = NULL THEN i
    ELSE [i EXCEPT !.impl = [table        |-> i.impl.table,
                             elements     |-> i.impl.elements,
                             index        |-> i.impl.index,
                             size         |-> i.impl.size,
                             element_size |-> i.impl.element_size,
                             ncmp         |-> 0,
                             trace        |-> <<>>]]

Unprobe(i) ==
    IF i.impl = NULL THEN i
    ELSE [i EXCEPT !.impl = [table        |-> i.impl.table,
                             elements     |-> i.impl.elements,
                             index        |-> i.impl.index,
                             size         |-> i.impl.size,
                             element_size |-> i.impl.element_size]]

Compared(i) == IF i = NULL \/ i.impl = NULL THEN 0 ELSE i.impl.ncmp

Traced(i) == IF i = NULL \/ i.impl = NULL THEN <<>> ELSE i.impl.trace

\* generic_sort(&it, compare), on an array iterator or a zeroed iterator
Sort ==
    /\ ~util.trap
    /\ it.category = "FORWARD_ITERATOR" \/ it.impl = NULL
    /\ \E c \in Comparators :
          \E s \in {generic_sort(Probe(it), c, mem)} :
          /\ it' = Unprobe(s)
          /\ util' = [NoUtil EXCEPT !.ncmp = Compared(s), !.trace = Traced(s)]
          /\ cmp' = c
    /\ pre' = it /\ op' = "generic_sort" /\ arg' = 0
    /\ ret' = FALSE /\ got' = NULL
    /\ hist' = <<>> /\ out' = <<>> /\ clean' = FALSE
    /\ exh' = (IF it.impl = NULL \/ it.impl.size <= 1 THEN exh ELSE FALSE) /\ pexh' = exh
    /\ UNCHANGED <<mem, it0>>

\* generic_sort(NULL, compare): the argument points at no Iterator
SortNull ==
    /\ ~util.trap
    /\ \E c \in Comparators :
          \E s \in {generic_sort(NULL, c, mem)} :
          /\ it' = (IF s = NULL THEN it ELSE s)
          /\ util' = [NoUtil EXCEPT !.ncmp = Compared(s), !.trace = Traced(s)]
          /\ cmp' = c
    /\ pre' = it /\ op' = "generic_sort_null" /\ arg' = 0
    /\ ret' = FALSE /\ got' = NULL
    /\ hist' = <<>> /\ out' = <<>> /\ clean' = FALSE
    /\ pexh' = exh
    /\ UNCHANGED <<mem, it0, exh>>

\* what every utility taking a copy leaves of the history
AfterUtility ==
    /\ ret' = FALSE /\ got' = NULL
    /\ hist' = <<>> /\ out' = <<>> /\ clean' = FALSE
    /\ pre' = it /\ pexh' = exh
    /\ UNCHANGED <<mem, it0, exh>>

RECURSIVE Seconds(_)
\* the iterators a second run of the constructors may bring to the state of
\* `i`: it wraps the same buffers, its pointer tables are blocks of their
\* own, and what it read from slot 0 of an empty table is whatever that
\* block held
Seconds(i) ==
    CASE i.category = "FORWARD_ITERATOR" ->
            {[i EXCEPT !.impl.table = MaxZip + i.impl.table, !.current = c] :
                c \in IF i.impl.size = 0 /\ i.impl.index = 0
                      THEN WildPointers ELSE {i.current}}
      [] i.category \in {"FILTER_ITERATOR", "MAP_ITERATOR"} ->
            {[i EXCEPT !.impl.source = s2,
                       !.current = IF i.current = DerefOp(i.impl.source)
                                   THEN DerefOp(s2) ELSE i.current] :
                s2 \in Seconds(i.impl.source)}
      [] i.category = "ZIP_ITERATOR" ->
            LET J == 0..(i.impl.count - 1)
                all == UNION {Seconds(i.impl.iterators[j]) : j \in J}
            IN  {[i EXCEPT !.impl.iterators = f,
                           !.current =
                              IF i.current.tag = "tuple"
                              THEN TuplePtr([j \in J |->
                                      IF i.current.elems[j] = DerefOp(i.impl.iterators[j])
                                      THEN DerefOp(f[j]) ELSE i.current.elems[j]])
                              ELSE i.current] :
                    f \in {f \in [J -> all] : \A j \in J : f[j] \in Seconds(i.impl.iterators[j])}}
      [] OTHER -> {i}

\* the iterators the caller compares `it` with: a copy of the Iterator struct,
\* and a second iterator over the same buffers, as constructed, one
\* operation behind `it`, and level with it
Others == {it} \cup Seconds(it0) \cup Seconds(pre) \cup Seconds(it)

\* it.equal(&it, &other)
Equal ==
    /\ ~util.trap
    /\ Callable(it)
    /\ \E other \in Others :
          util' = [NoUtil EXCEPT !.flag = EqualOp(it, other), !.other = other]
    /\ op' = "equal" /\ arg' = 0 /\ cmp' = "none"
    /\ it' = it
    /\ AfterUtility

\* array = iterator_to_array(it, &count)
ToArray ==
    /\ ~util.trap
    /\ Callable(it)
    /\ \E fail \in 0..MaxFailAt, g \in Garbage(it) :
          \E s \in {iterator_to_array(it, fail, mem, g)} :
          /\ it' = AfterCall(it, s.it)
          /\ util' = [NoUtil EXCEPT !.calls = s.calls, !.seen = s.seen,
                                    !.array = s.array, !.count = s.count,
                                    !.failed = s.failed, !.trap = s.trap]
          /\ arg' = fail
    /\ op' = "iterator_to_array" /\ cmp' = "none"
    /\ AfterUtility

\* iterator_foreach(it, print_int)
Foreach ==
    /\ ~util.trap
    /\ Callable(it)
    /\ \E g \in Garbage(it) :
          \E s \in {iterator_foreach(it, mem, g)} :
          /\ it' = AfterCall(it, s.it)
          /\ util' = [NoUtil EXCEPT !.calls = s.calls, !.seen = s.seen,
                                    !.trap = s.trap]
    /\ op' = "iterator_foreach" /\ arg' = 0 /\ cmp' = "none"
    /\ AfterUtility

\* iterator_find(it, &value, compare_ints)
Find ==
    /\ ~util.trap
    /\ Callable(it)
    /\ ProducesInts(it)
    /\ \E value \in FindValues, g \in Garbage(it) :
          \E s \in {iterator_find(it, HeapInt(value), "compare_ints", mem, g)} :
          /\ it' = AfterCall(it, s.it)
          /\ util' = [NoUtil EXCEPT !.calls = s.calls, !.seen = s.seen, !.ptr = s.r,
                                    !.trap = s.trap]
          /\ arg' = value
    /\ op' = "iterator_find" /\ cmp' = "compare_ints"
    /\ AfterUtility

\* iterator_any(it, pred)
IterAny ==
    /\ ~util.trap
    /\ Callable(it)
    /\ \E pred \in PredsFor(it), g \in Garbage(it) :
          \E s \in {iterator_any(it, pred, mem, g)} :
          /\ it' = AfterCall(it, s.it)
          /\ util' = [NoUtil EXCEPT !.calls = s.calls, !.seen = s.seen, !.flag = s.r,
                                    !.trap = s.trap]
          /\ cmp' = pred
    /\ op' = "iterator_any" /\ arg' = 0
    /\ AfterUtility

\* iterator_all(it, pred)
IterAll ==
    /\ ~util.trap
    /\ Callable(it)
    /\ \E pred \in PredsFor(it), g \in Garbage(it) :
          \E s \in {iterator_all(it, pred, mem, g)} :
          /\ it' = AfterCall(it, s.it)
          /\ util' = [NoUtil EXCEPT !.calls = s.calls, !.seen = s.seen, !.flag = s.r,
                                    !.trap = s.trap]
          /\ cmp' = pred
    /\ op' = "iterator_all" /\ arg' = 0
    /\ AfterUtility

\* it.destroy(&it), once, as the last call of the run
\* The destroy slot of a zeroed iterator is null.
Release ==
    /\ ~util.trap
    /\ op # "destroy"
    /\ IF it.impl = NULL
       THEN /\ \E t \in NullCallTraps : util' = [NoUtil EXCEPT !.trap = t]
            /\ it' = it
       ELSE LET d == DestroyOp(it, <<>>) IN
            /\ it' = d.it
            /\ util' = [NoUtil EXCEPT !.freed = d.freed]
    /\ pre' = it /\ op' = "destroy" /\ arg' = 0 /\ cmp' = "none"
    /\ ret' = FALSE /\ got' = NULL /\ pexh' = exh
    /\ UNCHANGED <<mem, it0, hist, out, clean, exh>>

Next ==
    \/ Advance \/ Deref \/ AdvanceBy \/ Reset \/ Sort \/ SortNull
    \/ Equal \/ ToArray \/ Foreach \/ Find \/ IterAny \/ IterAll

Spec == Init /\ [][Next]_vars

\* ------------------------------------------------ lifecycle specification
\* construction, any number of advance calls, one release
NextLife == Advance \/ Release

SpecLife == Init /\ [][NextLife]_vars

\* --------------------------------------------------- range specification
\* Ranges over the whole of int: bounds at and next to INT_MIN, 0 and
\* INT_MAX, steps of small and of extreme magnitude.
EdgeInts ==
    UNION {{INT_MIN + d, d - 1, INT_MAX - d} : d \in 0..(MaxStep - 1)}
EdgeSteps == Steps \cup {INT_MIN, INT_MAX}
WideRangeCfgs == {RangeCfg(s, e, st) : s \in EdgeInts, e \in EdgeInts, st \in EdgeSteps}

InitRange == \E c \in WideRangeCfgs : InitFrom(c)

\* a range is constructed and advanced
NextRange == Advance

SpecRange == InitRange /\ [][NextRange]_vars

\* ------------------------------------------------- sorting specification
\* Inputs of generic_sort: for every length up to MaxSortN an ascending, a
\* descending, an all-equal and MaxSeed scrambled buffers, and the buffer of
\* examples/code.c.
Ascending(n) == [i \in 1..n |-> i]
Descending(n) == [i \in 1..n |-> n + 1 - i]
AllEqual(n) == [i \in 1..n |-> 7]
Scrambled(n, seed) == [i \in 1..n |-> (i * (4 * seed + 3) + seed * seed) % 11]
SortExample == <<10, 20, 30, 40, 25, 15, 5>>

SortData ==
    {SortExample} \cup
    UNION {{Ascending(n), Descending(n), AllEqual(n)} \cup
           {Scrambled(n, seed) : seed \in 1..MaxSeed} : n \in 0..MaxSortN}

InitSort ==
    \/ \E d \in SortData : InitFrom(ArrayCfg(d, 4))
    \/ InitFrom(ArrayCfg(SortExample, 8))

\* generic_sort is applied to the input, then again to its own output
NextSort == Sort

SpecSort == InitSort /\ [][NextSort]_vars

\* ------------------------------------------------- loops over an array
\* An array iterator is advanced, reset and sorted, and nothing else: the
\* advance calls counted in hist are those made since construction or since
\* the last reset or sort.
InitLoop ==
    \E c \in ArrayCfgs \cup {c \in ExampleCfgs : c.k = "array"} : InitFrom(c)

NextLoop == Advance \/ Reset \/ Sort

SpecLoop == InitLoop /\ [][NextLoop]_vars

\* ------------------------------------------- sorting with any comparator
\* generic_sort(&it, compare) applied once to each input of SpecSort, under
\* the comparators above and under those that are no order
SortAny ==
    /\ op = "create"
    /\ \E c \in Comparators \cup WildComparators :
          LET s == generic_sort(Probe(it), c, mem) IN
          /\ it' = Unprobe(s)
          /\ util' = [NoUtil EXCEPT !.ncmp = Compared(s), !.trace = Traced(s)]
          /\ cmp' = c
    /\ pre' = it /\ op' = "generic_sort" /\ arg' = 0
    /\ ret' = FALSE /\ got' = NULL
    /\ hist' = <<>> /\ out' = <<>> /\ clean' = FALSE
    /\ exh' = (IF it.impl.size <= 1 THEN exh ELSE FALSE) /\ pexh' = exh
    /\ UNCHANGED <<mem, it0>>

NextSortAny == SortAny

SpecSortAny == InitSort /\ [][NextSortAny]_vars

\* ------------------------------------- the parts of the sort on their own
\* partition and heap_sort applied to every table of up to MaxPartN slots
\* over buffers of up to MaxVal + 1 different values, each run applying one
\* of the two to the table as constructed; heap_sort runs one loop at a time.
PartData == UNION {[1..n -> 1..(MaxVal + 1)] : n \in 0..MaxPartN}

InitParts == \E d \in PartData : InitFrom(ArrayCfg(d, 4))

\* heap_sort has built its heap and has extractions left to make
Extracting == op \in {"heap_build", "heap_extract"} /\ util.i > 0

\* what a step of the sort leaves of the history variables
AfterPart ==
    /\ pre' = it /\ arg' = 0 /\ ret' = FALSE /\ got' = NULL
    /\ hist' = <<>> /\ out' = <<>> /\ clean' = FALSE /\ pexh' = exh
    /\ UNCHANGED <<mem, it0, exh>>

\* p = partition(&it, low, high, compare)
PartitionCall ==
    /\ op = "create"
    /\ \E c \in Comparators, low \in 0..(it.impl.size - 1), high \in 0..(it.impl.size - 1) :
          /\ low <= high
          /\ LET q == partition(it, low, high, c, mem) IN
             /\ it' = q.it
             /\ util' = [NoUtil EXCEPT !.low = low, !.high = high, !.p = q.p,
                                       !.input = it.impl.elements]
          /\ cmp' = c
    /\ op' = "partition"
    /\ AfterPart

\* heap_sort(&it, compare), up to the end of its first loop
HeapBuildCall ==
    /\ op = "create"
    /\ \E c \in Comparators :
          LET n == it.impl.size
              b == HeapBuild([it |-> it, i |-> (n \div 2) - 1], n, c, mem)
          IN  /\ it' = b.it
              /\ util' = [NoUtil EXCEPT !.i = n - 1, !.input = it.impl.elements]
              /\ cmp' = c
    /\ op' = "heap_build"
    /\ AfterPart

\* one iteration of its second loop
HeapExtractCall ==
    /\ Extracting
    /\ LET e == HeapExtract([it |-> it, i |-> util.i], 1, cmp, mem) IN
       /\ it' = e.it
       /\ util' = [util EXCEPT !.i = e.i]
    /\ cmp' = cmp
    /\ op' = "heap_extract"
    /\ AfterPart

NextParts == PartitionCall \/ HeapBuildCall \/ HeapExtractCall

SpecParts == InitParts /\ [][NextParts]_vars

\* ------------------------------------------------------------------ claims
IsArray(i) == i.category = "FORWARD_ITERATOR"
IsRange(i) == i.category = "INPUT_ITERATOR" /\ i.impl # NULL
IsZip(i) == i.category = "ZIP_ITERATOR"
IsFilter(i) == i.category = "FILTER_ITERATOR"
IsMap(i) == i.category = "MAP_ITERATOR"

\* the table is non-decreasing under the comparator
SortedUnder(elements, size, compare) ==
    \A i \in 0..(size - 2) : Compare(compare, mem, elements[i], elements[i + 1]) <= 0

\* both tables hold every address the same number of times
SameMultiset(e1, e2) ==
    /\ DOMAIN e1 = DOMAIN e2
    /\ \A i \in DOMAIN e1 :
          Cardinality({j \in DOMAIN e1 : e1[j] = e1[i]}) =
          Cardinality({j \in DOMAIN e2 : e2[j] = e1[i]})

\* the values the table's slots point at, in table order
TableValues(i) == [j \in 1..i.impl.size |-> Load(i, mem, i.impl.elements[j - 1])]

\* C1: after generic_sort returns, the pointer table is non-decreasing under
\* the comparator and holds the same multiset of element addresses as before
\* the call; the buffer 10,20,30,40,25,15,5 sorted ascending reads
\* 5,10,15,20,25,30,40.
C1_SortCorrect ==
    op = "generic_sort" =>
        /\ SortedUnder(it.impl.elements, it.impl.size, cmp)
        /\ SameMultiset(pre.impl.elements, it.impl.elements)
        /\ (mem[0].data = SortExample /\ cmp = "compare_int") =>
              TableValues(it) = <<5, 10, 15, 20, 25, 30, 40>>

\* a table longer than the insertion-sort threshold was reordered by the sort
C1_Witness ==
    /\ op = "generic_sort"
    /\ it.impl.size > SORT_THRESHOLD
    /\ it.impl.elements # pre.impl.elements
    /\ pre.impl.elements = it0.impl.elements

\* --------------------------------------------- sequences a source produces
RECURSIVE Drain(_, _)
\* what successive advance and dereference calls on i hand out, up to the
\* first advance that signals exhaustion or is killed inside a callback
Drain(i, g) ==
    LET s == NextOp(i, mem, g) IN
    IF s.trap \/ ~s.r THEN <<>>
    ELSE <<Produced(s.it)>> \o Drain(s.it, g)

RECURSIVE Iterate(_, _, _)
\* the iterator after n advance calls
Iterate(i, n, g) ==
    IF n = 0 THEN i ELSE Iterate(NextOp(i, mem, g).it, n - 1, g)

\* cmp(element, value) == 0 for an element as it was produced
Matches(e, value) == PointsToInt(e.ptr) /\ e.val = value

\* pred(element) for an element as it was produced
Satisfies(pred, e) ==
    CASE pred = "is_even" -> PointsToInt(e.ptr) /\ e.val % 2 = 0
      [] pred = "always"  -> TRUE
      [] pred = "never"   -> FALSE

\* map_fn(element) for an element as it was produced
Transformed(fn, e) ==
    CASE fn = "square" -> IF PointsToInt(e.ptr) THEN square(e.val) ELSE NULL
      [] fn = "self"   -> e.ptr

Successes == Cardinality({j \in 1..Len(hist) : hist[j]})

\* the first n advance calls succeeded and every later one signalled exhaustion
SucceedsExactly(n) == \A j \in 1..Len(hist) : hist[j] = (j <= n)

OutVals == [j \in 1..Len(out) |-> out[j].val]

\* C2: on an array iterator built over n elements (n >= 0) exactly n advance
\* calls succeed, the (n+1)-th signals exhaustion and leaves current empty.
C2_ArrayAdvanceCount ==
    (IsArray(it) /\ clean) =>
        /\ SucceedsExactly(it.impl.size)
        /\ (op = "next" /\ Len(hist) = it.impl.size + 1) => it.current = NULL

Abs(x) == IF x < 0 THEN -x ELSE x

\* start, start+step, start+2*step, ... as long as the value is on the near
\* side of end
RangeExpected(start, end, step) ==
    LET n == Cardinality({k \in 0..Abs(end - start) :
                             IF step > 0 THEN start + k * step < end
                                         ELSE start + k * step > end})
    IN  [j \in 1..n |-> start + (j - 1) * step]

\* C3: a freshly built range iterator produces exactly start, start+step, ...
\* below end (above end for a negative step), then exhaustion; an empty range
\* produces nothing; range(0,10,2) produces 0,2,4,6,8.
C3_RangeSequence ==
    (IsRange(it) /\ clean) =>
        LET exp == RangeExpected(it.impl.start, it.impl.end, it.impl.step) IN
        /\ SucceedsExactly(Len(exp))
        /\ Len(out) = Successes
        /\ \A j \in 1..Len(out) : out[j].val = exp[j]
        /\ \A j \in 1..Len(out) : out[j].val # it.impl.end

\* range(0,10,2) has been advanced six times
C3_Witness ==
    /\ IsRange(it) /\ clean
    /\ it.impl.start = 0 /\ it.impl.end = 10 /\ it.impl.step = 2
    /\ hist = <<TRUE, TRUE, TRUE, TRUE, TRUE, FALSE>>
    /\ OutVals = <<0, 2, 4, 6, 8>>

Min(S) == CHOOSE x \in S : \A y \in S : x <= y

\* C4: a zip of k >= 1 fresh sources makes exactly min(s_1..s_k) successful
\* advances, s_i being what source i produces on its own, and its j-th tuple
\* holds the j-th element of every source in source order; the zip of
\* [1,2,3], [4,5,6,7], [7,8,9] gives (1,4,7), (2,5,8), (3,6,9).
C4_ZipTuples ==
    (IsZip(it) /\ clean) =>
        \E g \in Garbage(it0) :
           LET k    == it0.impl.count
               src  == [i \in 0..(k - 1) |-> Drain(it0.impl.iterators[i], g)]
               minS == Min({Len(src[i]) : i \in 0..(k - 1)})
           IN  /\ SucceedsExactly(minS)
               /\ Len(out) = Successes
               /\ \A j \in 1..Len(out) :
                     /\ out[j].ptr.tag = "tuple"
                     /\ DOMAIN out[j].ptr.elems = 0..(k - 1)
                     /\ \A i \in 0..(k - 1) :
                           /\ out[j].ptr.elems[i] = src[i][j].ptr
                           /\ out[j].val[i] = src[i][j].val

\* the three example arrays have been zipped and drained
C4_Witness ==
    /\ IsZip(it) /\ clean
    /\ it.impl.count = 3
    /\ hist = <<TRUE, TRUE, TRUE, FALSE>>
    /\ [j \in 1..3 |-> [i \in 1..3 |-> out[j].val[i - 1]]] =
          <<<<1, 4, 7>>, <<2, 5, 8>>, <<3, 6, 9>>>>

\* C5: a filter over a fresh source, whatever the source and the predicate,
\* produces exactly the source elements that satisfy the predicate, each once
\* and in source order, then exhaustion: every advance returns.
C5_FilterSubsequence ==
    (IsFilter(it) /\ clean) =>
        ~util.trap /\ \E g \in Garbage(it0) :
           LET src == Drain(it0.impl.source, g)
               Accepts(e) == Satisfies(it0.impl.filter_fn, e)
               exp == SelectSeq(src, Accepts)
           IN  /\ SucceedsExactly(Len(exp))
               /\ Len(out) = Successes
               /\ \A j \in 1..Len(out) :
                     out[j].ptr = exp[j].ptr /\ out[j].val = exp[j].val

\* the even elements of 1..6 have been filtered out and the filter drained
C5_Witness ==
    /\ IsFilter(it) /\ clean
    /\ it.impl.filter_fn = "is_even"
    /\ mem[0].data = <<1, 2, 3, 4, 5, 6>>
    /\ hist = <<TRUE, TRUE, TRUE, FALSE>>
    /\ OutVals = <<2, 4, 6>>

\* C6: a map over a fresh source producing n elements, whatever the source
\* and the transform, makes exactly n successful advances; the j-th advances
\* the source once and caches f(j-th source element) as current; the
\* (n+1)-th signals exhaustion: every advance returns.
C6_MapSequence ==
    (IsMap(it) /\ clean) =>
        ~util.trap /\ \E g \in Garbage(it0) :
           LET src == Drain(it0.impl.source, g)
               f(e) == Transformed(it0.impl.map_fn, e)
           IN  /\ SucceedsExactly(Len(src))
               /\ Len(out) = Successes
               /\ \A j \in 1..Len(out) : out[j].ptr = f(src[j])
               /\ it.impl.source = Iterate(it0.impl.source, Len(hist), g)
               /\ (op = "next" /\ ret) => it.current = f(src[Len(hist)])

\* the squares of 1..5 have been produced and the map drained
C6_Witness ==
    /\ IsMap(it) /\ clean
    /\ it.impl.map_fn = "square"
    /\ mem[0].data = <<1, 2, 3, 4, 5>>
    /\ hist = <<TRUE, TRUE, TRUE, TRUE, TRUE, FALSE>>
    /\ OutVals = <<1, 4, 9, 16, 25>>

\* C7: iterator_advance(it, n) on a fresh array iterator over m elements
\* succeeds with the cursor on index n-1 iff n <= m and fails iff n > m,
\* leaving the iterator where the failing advance left it.
C7_AdvanceBy ==
    (op = "iterator_advance" /\ IsArray(it) /\ pre = it0) =>
        /\ ret = (arg <= it.impl.size)
        /\ ret => it.impl.index = arg - 1
        /\ ~ret => \E g \in Garbage(it0) : it = Iterate(it0, it.impl.size + 1, g)

\* C8: iterator_reset on an array iterator, whatever was advanced before,
\* leaves index = 0 and current = the element at index 0 of the table.
C8_ArrayReset ==
    (op = "iterator_reset" /\ IsArray(it)) =>
        /\ it.impl.index = 0
        /\ it.impl.size >= 1 => it.current = it.impl.elements[0]

\* an array iterator advanced past exhaustion has been reset
C8_Witness ==
    /\ op = "iterator_reset" /\ IsArray(it)
    /\ it.impl.size >= 2
    /\ pre.impl.index = it.impl.size - 1
    /\ pre.current = NULL
    /\ it.current = it.impl.elements[0]

\* C9: once an advance has signalled exhaustion current is empty, and until
\* a reset every later advance signals exhaustion again and changes no state
\* of the iterator or of the iterators it owns.
C9_ExhaustionSticky ==
    /\ exh => it.current = NULL
    /\ (pexh /\ op = "next") => (~ret /\ it = pre)

\* C10: dereference returns the cached current and changes no state; before
\* any advance has succeeded on a fresh iterator it returns the empty value.
C10_Deref ==
    op = "deref" =>
        /\ got = pre.current
        /\ it = pre
        /\ (clean /\ Successes = 0) => got = NULL

\* an iterator whose only advance calls failed has been dereferenced
C10_Witness ==
    /\ op = "deref" /\ clean
    /\ Len(hist) > 0 /\ Successes = 0
    /\ got = NULL

\* C11: in every state an array iterator of n >= 0 elements reaches through
\* advance, iterator_advance, iterator_reset and generic_sort, a non-empty
\* current comes with 0 <= index < n.
C11_IndexInRange ==
    (IsArray(it) /\ it.current # NULL) =>
        (0 <= it.impl.index /\ it.impl.index < it.impl.size)

\* C12 as stated: between two resets no operation on an array iterator,
\* generic_sort included, decreases its index (before-first is below 0).
C12_IndexMonotone ==
    (IsArray(it) /\ op # "iterator_reset") => it.impl.index >= pre.impl.index

\* C12 amended: between two resets no operation on an array iterator other
\* than generic_sort decreases its index (before-first is below 0);
\* generic_sort on two or more elements puts the index back to 0.
C12_IndexMonotoneButSort ==
    /\ (IsArray(it) /\ op \notin {"iterator_reset", "generic_sort"}) =>
          it.impl.index >= pre.impl.index
    /\ (IsArray(it) /\ op = "generic_sort" /\ it.impl.size >= 2) =>
          it.impl.index = 0

\* a search that began before the first element has moved the cursor to slot 1
C12_Witness ==
    /\ IsArray(it) /\ op = "iterator_find"
    /\ pre.impl.index = NPOS
    /\ it.impl.index = 1

\* the entries of the block iterator_to_array returned (none for a null return)
Cells(block) == IF block = NoBlock THEN <<>> ELSE block.cells

C14_ToArrayFrame ==
    op = "iterator_to_array" => it = pre

\* C15: iterator_to_array returns null only when an allocation fails; when
\* every allocation succeeds, also for an iterator producing no element, the
\* result is non-null and the count output is written.
C15_ToArrayNonNull ==
    (op = "iterator_to_array" /\ ~util.failed) =>
        (util.array # NoBlock /\ util.count.set)

\* ------------------------------------------------- passes over the remainder
\* both sequences hold the same elements with the same contents
SameElems(a, b) ==
    /\ Len(a) = Len(b)
    /\ \A j \in 1..Len(a) : a[j].ptr = b[j].ptr /\ a[j].val = b[j].val

\* the positions of seq whose element passes Test
Positions(seq, Test(_)) == {j \in 1..Len(seq) : Test(seq[j])}

\* the last utility stopped right after the k-th remaining element: it was
\* handed the first k elements and made k advance calls
StoppedAt(rem, k, g) ==
    /\ k <= Len(rem) /\ SameElems(util.seen, SubSeq(rem, 1, k))
    /\ util.calls = k
    /\ it.impl = Iterate(pre, k, g).impl

\* the last utility ran to exhaustion: it was handed every remaining element
\* and its last advance call was the one that signalled exhaustion
FullPass(rem, g) ==
    /\ SameElems(util.seen, rem)
    /\ util.calls = Len(rem) + 1
    /\ it.impl = Iterate(pre, Len(rem) + 1, g).impl

\* C16: iterator_find returns the first element from the current position
\* on with cmp(element, value) == 0 and makes no advance call after it, or
\* returns null when no remaining element matches: the call returns.
C16_Find ==
    op = "iterator_find" =>
        ~util.trap /\ \E g \in Garbage(pre) :
           LET rem == Drain(pre, g)
               IsHit(e) == Matches(e, arg)
               hits == Positions(rem, IsHit)
           IN  IF hits # {}
               THEN /\ util.ptr = rem[Min(hits)].ptr
                    /\ StoppedAt(rem, Min(hits), g)
               ELSE /\ util.ptr = NULL
                    /\ FullPass(rem, g)

\* 22 has been found at the third of 20,21,22,23,24 after three advance calls
C16_Witness ==
    /\ op = "iterator_find" /\ pre = it0
    /\ mem[0].data = <<20, 21, 22, 23, 24>>
    /\ arg = 22
    /\ util.ptr = ElemPtr(0, 8)
    /\ util.calls = 3
    /\ it.impl.index = 2

C18_AnyAll ==
    /\ op \in {"iterator_any", "iterator_all"} => ~util.trap
    /\ op = "iterator_any" =>
          \E g \in Garbage(pre) :
             LET rem == Drain(pre, g)
                 Holds(e) == Satisfies(cmp, e)
                 good == Positions(rem, Holds)
             IN  /\ util.flag = (good # {})
                 /\ good # {} => StoppedAt(rem, Min(good), g)
                 /\ rem = <<>> => ~util.flag
    /\ op = "iterator_all" =>
          \E g \in Garbage(pre) :
             LET rem == Drain(pre, g)
                 Holds(e) == Satisfies(cmp, e)
             IN  /\ util.flag = (\A j \in 1..Len(rem) : Holds(rem[j]))
                 /\ rem = <<>> => util.flag

\* an even number has been found at the second of 25,26,27,28,29
C18_Witness ==
    /\ op = "iterator_any" /\ cmp = "is_even" /\ pre = it0
    /\ mem[0].data = <<25, 26, 27, 28, 29>>
    /\ util.flag
    /\ util.calls = 2
    /\ it.impl.index = 1

\* C19: after generic_sort on an array iterator of n >= 2 elements, wherever
\* the cursor was before the call, index = 0 and current is the first entry
\* of the table, which is a minimum of the elements under the comparator.
C19_SortCursor ==
    (op = "generic_sort" /\ IsArray(it) /\ it.impl.size >= 2) =>
        /\ it.impl.index = 0
        /\ it.current = it.impl.elements[0]
        /\ \A j \in 0..(it.impl.size - 1) :
              Compare(cmp, mem, it.current, it.impl.elements[j]) <= 0

\* an exhausted iterator has been sorted and its table reordered
C19_Witness ==
    /\ op = "generic_sort" /\ IsArray(it) /\ it.impl.size >= 2
    /\ pre.impl.index = it.impl.size - 1
    /\ pre.current = NULL
    /\ it.impl.elements # pre.impl.elements
    /\ it.current = it.impl.elements[0]

\* C20: generic_sort is a silent no-op on a null iterator pointer, on an
\* iterator whose variant state is null and on a table of n <= 1 elements:
\* table, index and current are unchanged and the comparator is not called.
C20_SortNoOp ==
    /\ op = "generic_sort_null" => (it = pre /\ util.ncmp = 0)
    /\ (op = "generic_sort" /\ pre.impl = NULL) => (it = pre /\ util.ncmp = 0)
    /\ (op = "generic_sort" /\ pre.impl # NULL /\ pre.impl.size <= 1) =>
          /\ it.impl.elements = pre.impl.elements
          /\ it.impl.index = pre.impl.index
          /\ it.current = pre.current
          /\ it = pre
          /\ util.ncmp = 0

\* a one-element table whose cursor is before the first element has been
\* handed to generic_sort
C20_Witness ==
    /\ op = "generic_sort" /\ pre.impl # NULL
    /\ pre.impl.size = 1
    /\ pre.impl.index = NPOS
    /\ it.impl.index = NPOS
    /\ it.current = NULL

\* the addresses a pointer table holds
Addresses(i) == {i.impl.elements[j] : j \in DOMAIN i.impl.elements}

\* C21: slot i of a freshly built table is buffer + i * element_size, and a
\* generic_sort step writes no caller buffer and leaves the set of addresses
\* held in the table exactly as it was: it only permutes the table.
C21_SortPermutes ==
    /\ [](IsArray(it0) =>
            \A i \in 0..(it0.impl.size - 1) :
                it0.impl.elements[i] = ElemPtr(0, i * it0.impl.element_size))
    /\ [][op' = "generic_sort" =>
            /\ mem' = mem
            /\ Addresses(it') = Addresses(it)
            /\ Cardinality(Addresses(it')) = it'.impl.size]_vars

\* a fresh ascending table longer than the insertion-sort threshold has been
\* sorted in descending order: its first slot holds the buffer's last address
C21_Witness ==
    /\ op = "generic_sort" /\ cmp = "compare_desc"
    /\ it.impl.size > SORT_THRESHOLD
    /\ pre.impl.elements = it0.impl.elements
    /\ mem[0].data = Ascending(it.impl.size)
    /\ it.impl.elements[0] = ElemPtr(0, (it.impl.size - 1) * it.impl.element_size)
    /\ it.impl.elements[it.impl.size - 1] = ElemPtr(0, 0)

\* floor(log2(n)) for n >= 1
Log2Floor(n) == CHOOSE k \in 0..n : 2^k <= n /\ n < 2^(k + 1)

\* generic_sort got past its early returns: introsort_impl has been called
SortRan == op = "generic_sort" /\ pre.impl # NULL /\ pre.impl.size >= 2

\* the depth_limit argument of the first introsort_impl call
FirstBudget == util.trace[1].depth_limit

\* C22 as stated: for every n >= 2 the depth budget generic_sort passes to
\* the first introsort_impl call is 2 * floor(log2(n)).
C22_DepthBudget ==
    SortRan => FirstBudget = 2 * Log2Floor(pre.impl.size)

\* C22 amended: for every n >= 2 the first introsort_impl call covers
\* [0, n - 1] and its depth budget d is 2 * log2(n) truncated to an integer,
\* that is 2^d <= n^2 < 2^(d + 1); d is 2 * floor(log2(n)) or one more.
C22_DepthBudgetTruncated ==
    SortRan =>
        LET n == pre.impl.size
            d == FirstBudget
        IN  /\ util.trace[1].begin = 0 /\ util.trace[1].end = n - 1
            /\ 2^d <= n * n /\ n * n < 2^(d + 1)
            /\ d \in {2 * Log2Floor(n), 2 * Log2Floor(n) + 1}

\* a table of 23 or more elements has been sorted with a budget of 9, one
\* more than twice the truncated logarithm
C22_Witness ==
    /\ SortRan
    /\ pre.impl.size >= 23
    /\ FirstBudget = 9
    /\ 2 * Log2Floor(pre.impl.size) = 8

\* current is a tuple with one entry per source, entry i being what source i
\* holds after its own successful advance
FullTuple(i) ==
    /\ i.current.tag = "tuple"
    /\ DOMAIN i.current.elems = 0..(i.impl.count - 1)
    /\ \A j \in 0..(i.impl.count - 1) :
          i.current.elems[j] = DerefOp(i.impl.iterators[j])

\* C23: once an advance of a zip iterator has signalled exhaustion, current
\* is empty and every later advance (next, or iterator_advance by n >= 1)
\* before a reset signals exhaustion again, whatever the sizes and order of
\* the sources; the tuple a successful advance or a reset leaves in current
\* has an entry from every source.
C23_ZipExhaustion ==
    IsZip(it) =>
        /\ exh => it.current = NULL
        /\ (pexh /\ op = "next") => ~ret
        /\ (pexh /\ op = "iterator_advance" /\ arg >= 1) => ~ret
        /\ \/ op = "next" /\ ret
           \/ op = "iterator_advance" /\ ret /\ arg >= 1
           \/ op = "iterator_reset" /\ it.current # NULL
           => FullTuple(it)

\* an exhausted zip whose first source is longer than its second has been
\* advanced again: the first source moved on, yet exhaustion was signalled
C23_Witness ==
    /\ IsZip(it) /\ it.impl.count = 2
    /\ pexh /\ op = "next" /\ ~ret
    /\ it.impl.iterators[0] # pre.impl.iterators[0]
    /\ it.current = NULL
    /\ Len(hist) >= 3 /\ hist[1]

\* C24: iterator_reset on a zip iterator, after any amount of advancing,
\* leaves in current the first tuple, made of each source's first element:
\* the tuple the first advance after construction produces.
C24_ZipReset ==
    (op = "iterator_reset" /\ IsZip(it) /\ ~HasEmptyTable(it0)) =>
        LET first == NextOp(it0, mem, <<>>) IN
        first.r =>
            /\ it.current # NULL
            /\ Load(it, mem, it.current) = Load(first.it, mem, first.it.current)

\* i with its predicate or transform replaced by fn
WithFn(i, fn) ==
    IF IsFilter(i) THEN [i EXCEPT !.impl.filter_fn = fn]
    ELSE [i EXCEPT !.impl.map_fn = fn]

\* C25: iterator_reset on a filter or map iterator resets the source and
\* changes nothing else: the adapter's own current and its function are as
\* before, and the outcome is the same whatever the predicate or transform
\* is, since neither is called.
C25_AdapterReset ==
    (op = "iterator_reset" /\ (IsFilter(it) \/ IsMap(it))) =>
        /\ it.current = pre.current
        /\ \E g \in Garbage(pre) :
              /\ it = [pre EXCEPT !.impl.source = iterator_reset(pre.impl.source, mem, g)]
              /\ \A fn \in (IF IsFilter(it) THEN PredFns ELSE MapFns) :
                    iterator_reset(WithFn(pre, fn), mem, g) = WithFn(it, fn)

\* a filter or map iterator holding an element has been reset: its source is
\* back on the first element and the adapter still holds the old element
C25_Witness ==
    /\ op = "iterator_reset" /\ (IsFilter(it) \/ IsMap(it))
    /\ IsArray(it.impl.source)
    /\ pre.impl.source.impl.index >= 1
    /\ it.impl.source.impl.index = 0
    /\ it.impl.source.current = it.impl.source.impl.elements[0]
    /\ it.current # NULL
    /\ it.current # it.impl.source.current

\* the number of times block b was handed to free by the last release
TimesFreed(b) == Cardinality({k \in DOMAIN util.freed : util.freed[k] = b})

\* the first call of free that received block b (0 when none did)
FreedAt(b) ==
    IF TimesFreed(b) = 0 THEN 0
    ELSE CHOOSE k \in DOMAIN util.freed :
            /\ util.freed[k] = b
            /\ \A j \in DOMAIN util.freed : util.freed[j] = b => k <= j

RECURSIVE SourcesFirst(_, _)
\* every source owned by `i` or below it was released, whole, before the
\* state of its adapter was freed
SourcesFirst(i, owner) ==
    LET Under(src, o) ==
            /\ \A b \in Allocated(src, o) :
                  TimesFreed(b) = 1 /\ FreedAt(b) < FreedAt(HeapBlock(owner, "impl"))
            /\ SourcesFirst(src, o)
    IN  CASE i.impl = NULL -> TRUE
          [] i.category \in {"FILTER_ITERATOR", "MAP_ITERATOR"} ->
                Under(i.impl.source, Append(owner, 0))
          [] i.category = "ZIP_ITERATOR" ->
                \A j \in 0..(i.impl.count - 1) :
                    Under(i.impl.iterators[j], Append(owner, j))
          [] OTHER -> TRUE

Released == op = "destroy" /\ pre.impl # NULL

\* C26: after a successful construction, any number of advance calls and one
\* release, every heap block allocated for the iterator (variant state,
\* pointer table, and for a zip the owned source array, the validity flags
\* and the elements buffer) has been freed exactly once, and every owned
\* source of a filter, map or zip has been released before the adapter's own
\* state is freed.
C26_ReleaseFreesAll ==
    Released =>
        /\ \A b \in Allocated(pre, <<>>) : TimesFreed(b) = 1
        /\ \A k \in DOMAIN util.freed : util.freed[k] \in Allocated(pre, <<>>)
        /\ SourcesFirst(pre, <<>>)
        /\ it.impl = NULL

\* what holds of the release as the code performs it: a zip leaves its
\* validity flags and its elements buffer allocated, everything else is
\* freed exactly once, sources first
C26_Leaked ==
    Released =>
        /\ \A b \in Allocated(pre, <<>>) :
              TimesFreed(b) = (IF b.field \in {"valid", "elements"} /\ IsZip(pre) /\ b.owner = <<>>
                               THEN 0 ELSE 1)
        /\ SourcesFirst(pre, <<>>)

\* C27: when construction fails (a malloc call of any constructor returns
\* NULL, or step = 0 is passed to create_range_iterator) the returned iterator
\* is fully zeroed, and the release operation invoked on it is a safe no-op:
\* it does not fault, frees nothing and leaves the iterator as it was.
C27_FailedConstruction ==
    /\ \A c \in FailedCfgs : BuildIt(c) = ZeroIterator
    /\ (op = "destroy" /\ pre = ZeroIterator) =>
            /\ ~util.trap
            /\ util.freed = <<>>
            /\ it = pre

\* the part of it the code keeps: every failed construction is zeroed
C27_Zeroed == \A c \in FailedCfgs : BuildIt(c) = ZeroIterator

WithinRange(v, start, end, step) ==
    IF step > 0 THEN start <= v /\ v < end ELSE end < v /\ v <= start

\* v + step lies outside the machine int
StepLeavesInt(v, step) ==
    IF step > 0 THEN v > INT_MAX - step ELSE v < INT_MIN - step

RECURSIVE RangeValues(_, _, _, _, _)
\* the first n (or all, when fewer) of the values v, v + step, ... that lie
\* between start and end
RangeValues(v, start, end, step, n) ==
    IF n = 0 \/ ~WithinRange(v, start, end, step) THEN <<>>
    ELSE IF StepLeavesInt(v, step) THEN <<v>>
    ELSE <<v>> \o RangeValues(v + step, start, end, step, n - 1)

\* a sum or difference of the range arithmetic left the machine int
RangeWrapped(r) ==
    \/ IF r.step > 0 THEN r.start < INT_MIN + r.step ELSE r.start > INT_MAX + r.step
    \/ LET vs == RangeValues(r.start, r.start, r.end, r.step, MaxAdv + 1)
       IN  \E k \in DOMAIN vs : StepLeavesInt(vs[k], r.step)

\* C28: for every start, end and nonzero step of the machine int, with
\* start - step and current + step wrapping modulo 2^32, a range iterator
\* signals exhaustion after finitely many advance calls (no more values are
\* produced than lie between start and end) and never produces a value
\* outside [start, end) for step > 0 or outside (end, start] for step < 0.
C28_RangeTerminates ==
    (IsRange(it0) /\ clean) =>
        LET r == it0.impl IN
        /\ \A k \in DOMAIN out : WithinRange(out[k].val, r.start, r.end, r.step)
        /\ Len(out) <= Len(RangeValues(r.start, r.start, r.end, r.step, MaxAdv + 1))

\* what the code keeps: the same, for the ranges whose arithmetic never wraps
C28_NoWrap ==
    (IsRange(it0) /\ clean /\ ~RangeWrapped(it0.impl)) =>
        LET r == it0.impl IN
        /\ \A k \in DOMAIN out : WithinRange(out[k].val, r.start, r.end, r.step)
        /\ Len(out) <= Len(RangeValues(r.start, r.start, r.end, r.step, MaxAdv + 1))

RECURSIVE Structural(_, _)
\* the comparison the variants are documented to make
Structural(a, b) ==
    CASE IsArray(a) -> a.impl.index = b.impl.index /\ a.impl.table = b.impl.table
      [] IsRange(a) -> /\ a.impl.current = b.impl.current
                       /\ a.impl.end = b.impl.end
                       /\ a.impl.step = b.impl.step
      [] IsFilter(a) \/ IsMap(a) -> Structural(a.impl.source, b.impl.source)
      [] IsZip(a) ->
            /\ a.impl.count = b.impl.count
            /\ \A i \in 0..(a.impl.count - 1) :
                  i < b.impl.count =>
                      Structural(a.impl.iterators[i], b.impl.iterators[i])

\* C29: equal changes no state and compares structurally within one variant:
\* two array iterators are equal iff they have the same index and the same
\* pointer table, two ranges iff the same current value, end and step, two
\* filters or two maps iff their sources are equal, two zips iff they have
\* the same source count and pairwise equal sources.
C29_EqualStructural ==
    /\ [](op = "equal" => /\ it = pre
                          /\ util.other.category = pre.category
                          /\ util.flag = Structural(pre, util.other))
    /\ [][op' = "equal" => it' = it /\ mem' = mem]_vars

\* two array iterators on the same index whose pointer tables are different
\* blocks were compared
C29_Witness ==
    /\ op = "equal"
    /\ IsArray(pre)
    /\ pre.impl.index = 1
    /\ util.other.impl.index = pre.impl.index
    /\ util.other.impl.elements = pre.impl.elements
    /\ util.other.impl.table # pre.impl.table
    /\ ~util.flag

\* the calls of introsort_impl of the last generic_sort that were entered on
\* fewer than SORT_THRESHOLD elements
ShortCalls ==
    {k \in DOMAIN util.trace :
        util.trace[k].end - util.trace[k].begin + 1 < SORT_THRESHOLD}

\* C30: whenever introsort_impl is entered on a subrange [begin, end] of fewer
\* than 16 elements, also from within a recursive call, the insertion sort it
\* runs covers the whole table: the call leaves all of 0..count-1 in order,
\* not only [begin, end], and so may move slots outside [begin, end].
C30_InsertionWholeTable ==
    SortRan =>
        \A k \in ShortCalls :
            LET e == util.trace[k] IN
            /\ e.branch = "insertion_sort"
            /\ SameMultiset(e.before, e.after)
            /\ SortedUnder(e.after, pre.impl.size, cmp)

\* a recursive call on a short subrange moved a slot outside that subrange
C30_Witness ==
    /\ SortRan
    /\ \E k \in ShortCalls :
          LET e == util.trace[k] IN
          /\ k > 1
          /\ e.begin > 0 \/ e.end < pre.impl.size - 1
          /\ \E p \in DOMAIN e.before :
                (p < e.begin \/ p > e.end) /\ e.before[p] # e.after[p]

\* C31: partition(low, high) with low <= high takes the element at high as
\* pivot and returns p with low <= p <= high; afterwards the pivot is at p,
\* every element of low..p-1 compares <= pivot, every element of p+1..high
\* compares > pivot, low..high hold a permutation of what they held, and
\* every slot outside low..high is unchanged.
C31_Partition ==
    op = "partition" =>
        LET low   == util.low
            high  == util.high
            p     == util.p
            a     == it.impl.elements
            b     == util.input
            pivot == b[high]
        IN  /\ low <= p /\ p <= high
            /\ a[p] = pivot
            /\ \A j \in low..(p - 1) : Compare(cmp, mem, a[j], pivot) <= 0
            /\ \A j \in (p + 1)..high : Compare(cmp, mem, a[j], pivot) > 0
            /\ {a[j] : j \in low..high} = {b[j] : j \in low..high}
            /\ \A j \in DOMAIN b : (j < low \/ j > high) => a[j] = b[j]
            /\ DOMAIN a = DOMAIN b
            /\ it.impl.index = pre.impl.index /\ it.current = pre.current

\* a partition of an inner subrange put its pivot strictly inside it, with
\* an element equal to the pivot on the left and moved slots
C31_Witness ==
    /\ op = "partition"
    /\ 0 < util.low /\ util.low < util.p /\ util.p < util.high
    /\ util.high < it.impl.size - 1
    /\ it.impl.elements # util.input
    /\ \E j \in util.low..(util.p - 1) :
          Compare(cmp, mem, it.impl.elements[j], it.impl.elements[util.p]) = 0

\* slots 0..n-1 of table a form a max-heap under the comparator of the run
IsMaxHeap(a, n) ==
    \A i \in 0..(n - 1) :
        \A c \in {2 * i + 1, 2 * i + 2} :
            c < n => Compare(cmp, mem, a[i], a[c]) >= 0

\* the number of extractions heap_sort has made
Extracted == it.impl.size - 1 - util.i

\* heap_sort has returned
HeapSorted == op \in {"heap_build", "heap_extract"} /\ util.i <= 0

\* C32: heap_sort on n elements: after the build phase every parent compares
\* >= its children; after the k-th extraction the last k slots hold the k
\* largest elements in non-decreasing order and slots 0..n-k-1 form a
\* max-heap; on return the table is sorted and a permutation of its input.
C32_HeapSort ==
    LET n == it.impl.size
        a == it.impl.elements
    IN  /\ op = "heap_build" => IsMaxHeap(a, n)
        /\ (op = "heap_extract" /\ util.i >= 0) =>
              LET k == Extracted IN
              /\ \A j \in (n - k)..(n - 2) : Compare(cmp, mem, a[j], a[j + 1]) <= 0
              /\ \A x \in 0..(n - k - 1), y \in (n - k)..(n - 1) :
                    Compare(cmp, mem, a[x], a[y]) <= 0
              /\ IsMaxHeap(a, n - k)
        /\ HeapSorted =>
              /\ SortedUnder(a, n, cmp)
              /\ SameMultiset(util.input, a)
              /\ it = heap_sort(it0, cmp, mem)

\* the second extraction of a heap_sort of five slots moved the heap
C32_Witness ==
    /\ op = "heap_extract"
    /\ it.impl.size = MaxPartN
    /\ Extracted = 2
    /\ \E j \in 0..(it.impl.size - 3) : it.impl.elements[j] # pre.impl.elements[j]
    /\ Compare(cmp, mem, it.impl.elements[0], it.impl.elements[it.impl.size - 2]) < 0

\* entry j of the trace is a call that can have made call k: it partitioned,
\* handed on its budget less one, and k's subrange lies inside its own and is
\* strictly shorter
MadeBy(k, j) ==
    LET e == util.trace[k]
        q == util.trace[j]
    IN  /\ j < k
        /\ q.branch = "partition"
        /\ e.depth_limit = q.depth_limit - 1
        /\ q.begin <= e.begin /\ e.end <= q.end
        /\ e.end - e.begin < q.end - q.begin

\* C33: in every introsort_impl invocation depth_limit >= 0; every recursive
\* call receives depth_limit - 1 and a strictly smaller subrange; no
\* invocation partitions when depth_limit = 0; so the nesting never exceeds
\* the initial budget and generic_sort returns, after fewer calls than there
\* are elements, for every table and every comparator, an order or not.
C33_DepthBounded ==
    SortRan =>
        LET n == pre.impl.size IN
        /\ Len(util.trace) >= 1 /\ Len(util.trace) < n
        /\ util.trace[1].begin = 0 /\ util.trace[1].end = n - 1
        /\ \A k \in DOMAIN util.trace :
              LET e == util.trace[k] IN
              /\ e.depth_limit >= 0
              /\ FirstBudget - e.depth_limit <= FirstBudget
              /\ e.branch = "partition" => e.depth_limit > 0
              /\ k > 1 => \E j \in 1..(k - 1) : MadeBy(k, j)
        /\ it.impl.size = n
        /\ SameMultiset(pre.impl.elements, it.impl.elements)

\* a sort under a comparator that is no order used up its budget: a call
\* with depth_limit 0 ran heap_sort, nested as deep as the budget allows
C33_Witness ==
    /\ SortRan
    /\ cmp \in WildComparators
    /\ \E k \in DOMAIN util.trace :
          /\ util.trace[k].depth_limit = 0
          /\ util.trace[k].branch = "heap_sort"
          /\ k = FirstBudget + 1

\* all elements of the table handed to the last sort compare equal
AllCompareEqual ==
    \A i \in DOMAIN pre.impl.elements, j \in DOMAIN pre.impl.elements :
        Compare(cmp, mem, pre.impl.elements[i], pre.impl.elements[j]) = 0

\* C34: on an input whose n elements all compare equal every partition puts
\* the pivot at the last index of its subrange, so only the left side is
\* recursed on and it shrinks by one element per level; when n minus the
\* initial budget d is at least 16 (n = 25: d = 9) the budget reaches 0 on a
\* subrange of n - d >= 16 elements and heap_sort is invoked.
C34_AllEqualReachesHeapSort ==
    (SortRan /\ AllCompareEqual) =>
        LET n == pre.impl.size
            d == FirstBudget
            t == util.trace
        IN  /\ \A k \in DOMAIN t :
                  /\ t[k].begin = 0
                  /\ t[k].end = n - k
                  /\ t[k].depth_limit = d - (k - 1)
                  /\ t[k].branch = "partition" =>
                        /\ t[k].after[t[k].end] = t[k].before[t[k].end]
                        /\ k < Len(t)
            /\ (n - d >= SORT_THRESHOLD) =>
                  /\ Len(t) = d + 1
                  /\ t[d + 1].depth_limit = 0
                  /\ t[d + 1].branch = "heap_sort"
                  /\ t[d + 1].end - t[d + 1].begin + 1 = n - d

\* a sort of 25 or more equal elements ended in heap_sort
C34_Witness ==
    /\ SortRan
    /\ AllCompareEqual
    /\ pre.impl.size - FirstBudget >= SORT_THRESHOLD
    /\ util.trace[Len(util.trace)].branch = "heap_sort"
    /\ Len(util.trace) = 10

\* call j of the trace ran inside call k: it is k or was made, directly or
\* not, by k
Within(j, k) ==
    /\ k <= j
    /\ \A x \in (k + 1)..j :
          /\ util.trace[k].begin <= util.trace[x].begin
          /\ util.trace[x].end <= util.trace[k].end
          /\ util.trace[x].depth_limit < util.trace[k].depth_limit

\* the last call that ran inside call k: when it returns, k returns
LastWithin(k) ==
    CHOOSE j \in k..Len(util.trace) :
        Within(j, k) /\ (j < Len(util.trace) => ~Within(j + 1, k))

\* C35: on return from every introsort_impl invocation, top-level or
\* recursive, the whole pointer table (not only the invocation's subrange) is
\* sorted under a total-order comparator: the last step an invocation runs
\* is a whole-table insertion sort or a whole-table heap sort.
C35_SortedOnEveryReturn ==
    (SortRan /\ cmp \in Comparators) =>
        \A k \in DOMAIN util.trace :
            LET e    == util.trace[k]
                last == util.trace[LastWithin(k)]
            IN  /\ e.branch = "partition" =>
                      k < Len(util.trace) /\ MadeBy(k + 1, k)
                /\ last.branch \in {"insertion_sort", "heap_sort"}
                /\ SortedUnder(last.after, pre.impl.size, cmp)
                /\ SameMultiset(e.before, last.after)

\* a recursive invocation on a subrange of 16 or more elements returned
\* after several inner calls, with slots outside its subrange moved
C35_Witness ==
    /\ SortRan
    /\ \E k \in DOMAIN util.trace :
          LET e == util.trace[k] IN
          /\ k > 1
          /\ e.branch = "partition"
          /\ LastWithin(k) > k + 1
          /\ \E p \in DOMAIN e.before :
                /\ p > e.end
                /\ e.before[p] # util.trace[LastWithin(k)].after[p]

\* the loop of advance calls under way has signalled exhaustion
LoopEnded == \E k \in DOMAIN hist : ~hist[k]

\* C36: after iterator_reset or generic_sort on an array iterator of n >= 2
\* elements the next advance moves to index 1: a loop that advances before
\* it dereferences visits exactly the n-1 elements at indices 1..n-1 and
\* never the one at index 0, while the same loop on a freshly constructed
\* iterator visits all n.
C36_FirstElementSkipped ==
    (IsArray(it) /\ it.impl.size >= 2) =>
        LET n == it.impl.size
            e == it.impl.elements
        IN  /\ op \in {"iterator_reset", "generic_sort"} => it.impl.index = 0
            /\ (op = "next" /\ ~clean) =>
                  /\ hist[1] /\ out[1].ptr = e[1]
                  /\ \A k \in DOMAIN out : out[k].ptr = e[k]
                  /\ \A k \in DOMAIN out : out[k].ptr # e[0]
                  /\ LoopEnded => Len(out) = n - 1
            /\ (op = "next" /\ clean) =>
                  /\ \A k \in DOMAIN out : out[k].ptr = e[k - 1]
                  /\ LoopEnded => Len(out) = n

\* a loop over a five-element array after a reset or sort ran to exhaustion
C36_Witness ==
    /\ IsArray(it) /\ it.impl.size = 5
    /\ op = "next" /\ ~clean
    /\ LoopEnded
    /\ Len(out) = 4
    /\ out[1].ptr = it.impl.elements[1]

ByValuePass == {"iterator_foreach", "iterator_find", "iterator_any", "iterator_all"}

\* C37: the utilities that take the iterator by value (iterator_foreach,
\* iterator_find, iterator_any, iterator_all) advance the variant state the
\* caller's iterator refers to: after iterator_foreach on a freshly
\* constructed array iterator of n >= 1 elements the caller's iterator has
\* index n-1, its own current field is still empty, and the caller's next
\* advance signals exhaustion.
C37_ByValueSharesState ==
    /\ (op \in ByValuePass /\ ~HasEmptyTable(pre)) =>
          /\ it.impl = Iterate(pre, util.calls, <<>>).impl
          /\ it.current = pre.current
    /\ (op = "iterator_foreach" /\ IsArray(it) /\ pre = it0 /\ it.impl.size >= 1) =>
          /\ util.calls = it.impl.size + 1
          /\ it.impl.index = it.impl.size - 1
          /\ it.current = NULL
          /\ ~NextOp(it, mem, <<>>).r

\* iterator_foreach went over a fresh array iterator of five elements
C37_Witness ==
    /\ op = "iterator_foreach" /\ IsArray(it) /\ pre = it0
    /\ it.impl.size = 5
    /\ Len(util.seen) = 5
    /\ it.impl.index = 4
    /\ pre.impl.index = NPOS
    /\ it.current = NULL

\* the first source of zip iterator z whose advance fails, z.impl.count if none
FirstFailing(z, g) ==
    LET failing == {j \in 0..(z.impl.count - 1) : ~NextOp(z.impl.iterators[j], mem, g).r}
    IN  IF failing = {} THEN z.impl.count
        ELSE CHOOSE j \in failing : \A k \in failing : j <= k

\* C38: when an advance of a zip iterator signals exhaustion because source
\* i is the first source that fails to advance, that call has advanced each
\* of the sources 0..i-1 once more and has left the sources i+1..k-1 alone:
\* the sources are no longer at the same position, and the element each of
\* the sources 0..i-1 yielded in that call is in none of the tuples.
C38_ZipMisaligned ==
    (op = "next" /\ IsZip(pre) /\ ~ret) =>
        \E g \in Garbage(pre) :
            LET k == pre.impl.count
                i == FirstFailing(pre, g)
                src(j) == it.impl.iterators[j]
                was(j) == pre.impl.iterators[j]
            IN  /\ i < k
                /\ it.current = NULL
                /\ \A j \in 0..(i - 1) :
                      /\ NextOp(was(j), mem, g).r
                      /\ src(j) = NextOp(was(j), mem, g).it
                      /\ src(j) # was(j)
                      /\ ~HasEmptyTable(was(j)) =>
                            /\ src(j).current # NULL
                            /\ \A t \in DOMAIN out :
                                  out[t].val[j] # Load(it, mem, src(j).current)
                /\ src(i) = NextOp(was(i), mem, g).it
                /\ \A j \in (i + 1)..(k - 1) : src(j) = was(j)
                /\ (clean /\ ~pexh) =>
                      /\ \A j \in 0..(i - 1) :
                            IsArray(src(j)) => src(j).impl.index = Len(out)
                      /\ \A j \in i..(k - 1) :
                            IsArray(src(j)) => src(j).impl.index = Len(out) - 1

\* the middle source of three ran out first: the first source moved on to
\* its second element, the third stayed on its first
C38_Witness ==
    /\ op = "next" /\ IsZip(pre) /\ ~ret /\ clean /\ ~pexh
    /\ pre.impl.count = 3
    /\ FirstFailing(pre, <<>>) = 1
    /\ Len(out) = 1
    /\ it.impl.iterators[0].impl.index = 1
    /\ it.impl.iterators[2].impl.index = 0
    /\ it.impl.iterators[2] = pre.impl.iterators[2]

\* the slots of the tuple in current of zip iterator z that a range source filled
RangeSlots(z) ==
    {j \in 0..(z.impl.count - 1) : IsRange(z.impl.iterators[j])}

\* C39: every element a range iterator produces is the one address of its
\* internal current field: iterator_to_array over a range of n >= 2 values
\* returns n identical pointers which all read as the last value produced
\* once the drain is over, and the slot of a zip tuple that a range source
\* filled reads a different value after the zip has been advanced again.
C39_RangeElementsAlias ==
    /\ (op = "next" /\ IsRange(it) /\ ret) =>
          /\ it.current = RangeCurPtr(it.impl.id)
          /\ \A t \in DOMAIN out : out[t].ptr = it.current
    /\ (op = "iterator_to_array" /\ IsRange(it) /\ ~util.failed
                                /\ util.count.n >= 2) =>
          LET n == util.count.n
              cells == util.array.cells
          IN  /\ Len(cells) = n
              /\ \A j \in 1..n : cells[j] = RangeCurPtr(it.impl.id)
              /\ \A j \in 1..n : Load(it, mem, cells[j]) = it.impl.current
              /\ it.impl.current = pre.impl.current + n * it.impl.step
    /\ (op = "next" /\ IsZip(it) /\ ret /\ pre.current # NULL) =>
          \A j \in RangeSlots(it) :
              LET slot == pre.current.elems[j] IN
              /\ slot = RangeCurPtr(it.impl.iterators[j].impl.id)
              /\ it.current.elems[j] = slot
              /\ Load(pre, mem, slot) # Load(it, mem, slot)

\* the range 0, 2, 4, 6, 8 was drained into a collection: five times the same
\* address, reading 8
C39_Witness ==
    /\ op = "iterator_to_array" /\ IsRange(it) /\ ~util.failed
    /\ pre = it0 /\ it.impl.step = 2
    /\ util.count = Written(5)
    /\ \A j \in 1..5 : util.array.cells[j] = util.array.cells[1]
    /\ \A j \in 1..5 : Load(it, mem, util.array.cells[j]) = 8

\* a zip over a range source produced its second tuple
C39_ZipSlotMoved ==
    /\ op = "next" /\ IsZip(it) /\ ret /\ pre.current # NULL
    /\ RangeSlots(it) # {}

====
